---- MODULE Spec2Model ----
(***************************************************************************)
(* Control-flow model of the browser automation scripts of the repository: *)
(*   injector_playwright.py          main, LeadInjector.inject_lead        *)
(*   manual_injector_playwright.py   ManualLeadInjector                    *)
(*   agent_session_browser.py        main, AgentSessionBrowser             *)
(*   quantumai_injector_playwright.py main, QuantumAIInjector.inject_lead  *)
(* One script runs per behaviour (variable prog).  The browser, the target *)
(* page, the proxy and the operator are the environment: every call into   *)
(* them either succeeds or raises, chosen nondeterministically.            *)
(***************************************************************************)
EXTENDS Integers, Sequences, FiniteSets, TLC

VARIABLES
    prog,           \* which script this behaviour runs
    pc,             \* position in the script
    argvKind,       \* shape of the command line / JSON argument
    dataProxy,      \* injection_data.get('proxy') as given on the command line
    testLead,       \* leadId starts with 'test_'
    proxy_config,   \* self.proxy_config of the injector
    browser,        \* local 'browser' / self.browser: "none", "open", "closed"
    attempt,        \* loop variable of the navigation retry loop
    fieldIdx,       \* index of the form field being looked up (inject_lead)
    exc,            \* exception travelling to the outer handler ("" when none)
    result,         \* value the operation returned, or the exception it left with
    exitStatus,     \* process exit status (-1 while running)
    trace,          \* observable events of the run, in order
    form_submitted, \* manual injector: the latch of the wait loop
    polls,          \* manual injector: iterations of the wait loop so far
    last_url,       \* manual injector: the URL read at the previous poll
    lead_data,      \* manual injector: the 'leadId' and '_id' entries of the lead
    send_call,      \* manual injector: the last call of _send_session_to_backend
    jar,            \* cookies, localStorage and sessionStorage of the browser
                    \* the session was captured from
    session_data,   \* agent browser: self.session_data
    ctx_cookies,    \* agent browser: cookies passed to context.add_cookies
    page_store,     \* agent browser: entries written by restore_session_storage
    navigation_success, \* agent browser: local of run()
    gotos,          \* agent browser: URLs given to page.goto, in order
    popup_visible,  \* quantumai: local of inject_lead
    success,        \* quantumai: local of inject_lead
    sel_log,        \* find_form_field: the selectors tried so far, in order, each
                    \* with whether it matched a visible element
    all_inputs,     \* find_form_field: what query_selector_all('input') gave
    element,        \* find_form_field: what the call returned
    num_leads,      \* injector.py: len(lead_manager.leads)
    current_lead_index, \* injector.py: lead_manager.current_lead_index
    driver,         \* injector.py: local 'driver' of main's loop
    remote_url      \* injector.py: local 'remote_url' of main's loop

manVars == <<form_submitted, polls, last_url, lead_data, send_call>>
agentVars == <<jar, session_data, ctx_cookies, page_store, navigation_success, gotos>>
quantVars == <<popup_visible, success>>
findVars == <<sel_log, all_inputs, element>>
selVars == <<num_leads, current_lead_index, driver, remote_url>>

vars == <<prog, pc, argvKind, dataProxy, testLead, proxy_config, browser,
          attempt, fieldIdx, exc, result, exitStatus, trace,
          manVars, agentVars, quantVars, findVars, selVars>>

\* ---------------------------------------------------------------------------
\* Bounds and constants
\* ---------------------------------------------------------------------------

\* injector_playwright.py: MAX_RETRIES, RETRY_DELAY
MAX_RETRIES == 3
RETRY_DELAY == 2

\* Kinds of exception a call into the environment may raise, by what the
\* handlers of the scripts distinguish: the message contains "proxy", the
\* message contains "timeout" (and not "proxy"), any other Exception, and a
\* KeyboardInterrupt (a BaseException no 'except Exception' catches).
ExcMessages == {"proxy", "timeout", "other"}
ExcKinds == ExcMessages \cup {"interrupt"}

\* The four form fields of inject_lead, in source order.
Fields == <<"firstName", "lastName", "email", "phone">>

Ev(e) == Append(trace, e)

\* The event of time.sleep(n).
SleepEv(n) == "sleep_" \o ToString(n)

Count(s, e) == Cardinality({i \in DOMAIN s : s[i] = e})

Has(s, e) == \E i \in DOMAIN s : s[i] = e

\* ---------------------------------------------------------------------------
\* Session data: cookies, localStorage, sessionStorage
\* ---------------------------------------------------------------------------

\* Longest cookie list of a browser context in the model.
MaxCookies == 2

\* Most iterations of the manual injector's wait loop in the model.
MaxPolls == 2

\* dict.get(key, default); a dict is a function from the keys it has.
Get(d, key, default) == IF key \in DOMAIN d THEN d[key] ELSE default

\* Cookies as a browser context reports them.  'expires' is a set: {} for
\* None, {n} for the number n (-1 marks a session cookie).
SampleCookies ==
    { [name |-> "sid", value |-> "v1", domain |-> ".a.com", path |-> "/app",
       expires |-> {5}, httpOnly |-> TRUE, secure |-> TRUE, sameSite |-> "Strict"],
      [name |-> "t", value |-> "v2"],
      [name |-> "u", value |-> "v3", domain |-> "b.com", path |-> "/",
       expires |-> {-1}, httpOnly |-> FALSE, secure |-> FALSE, sameSite |-> "None"] }

SeqsUpTo(S, n) == UNION {[1..k -> S] : k \in 0..n}

\* A storage area is the set of its <<key, value>> entries.
Storages ==
    { {}, {<<"k1", "a">>}, {<<"k1", "a">>, <<"k2", "b">>} }

Jars == [cookies : SeqsUpTo(SampleCookies, MaxCookies),
         localStorage : Storages,
         sessionStorage : {{}, {<<"k2", "c">>}}]

EmptyJar == [cookies |-> <<>>, localStorage |-> {}, sessionStorage |-> {}]

\* manual_injector_playwright.py lines 510-519: one cookie of the record
CaptureCookie(cookie) ==
    [name |-> cookie["name"],
     value |-> cookie["value"],
     domain |-> Get(cookie, "domain", ""),
     path |-> Get(cookie, "path", "/"),
     expires |-> Get(cookie, "expires", {}),
     httpOnly |-> Get(cookie, "httpOnly", FALSE),
     secure |-> Get(cookie, "secure", FALSE),
     sameSite |-> Get(cookie, "sameSite", "Lax")]

\* manual_injector_playwright.py lines 457-533: the captured-session record
\* built from the browser state j; lsOk / ssOk tell whether the page let the
\* script read localStorage / sessionStorage (the record holds {} otherwise).
CaptureSession(j, lsOk, ssOk) ==
    [cookies |-> [i \in 1..Len(j.cookies) |-> CaptureCookie(j.cookies[i])],
     localStorage |-> IF lsOk THEN j.localStorage ELSE {},
     sessionStorage |-> IF ssOk THEN j.sessionStorage ELSE {}]

\* agent_session_browser.py lines 111-120: the 'expires' entry of a restored
\* cookie, present only when the stored value is truthy
RestoredExpires(cookie) ==
    IF "expires" \in DOMAIN cookie /\ cookie["expires"] # {} /\ cookie["expires"] # {0}
    THEN "expires" :> cookie["expires"]
    ELSE <<>>

\* PlaywrightCookie that does not carry the stored sameSite over.
PlaywrightCookie_DefaultSameSite(cookie) ==
    [name |-> cookie["name"],
     value |-> cookie["value"],
     domain |-> Get(cookie, "domain", ""),
     path |-> Get(cookie, "path", "/"),
     httpOnly |-> Get(cookie, "httpOnly", FALSE),
     secure |-> Get(cookie, "secure", FALSE),
     sameSite |-> "Lax"] @@ RestoredExpires(cookie)

\* agent_session_browser.py lines 100-122: one cookie in Playwright format
PlaywrightCookie(cookie) ==
    [name |-> cookie["name"],
     value |-> cookie["value"],
     domain |-> Get(cookie, "domain", ""),
     path |-> Get(cookie, "path", "/"),
     httpOnly |-> Get(cookie, "httpOnly", FALSE),
     secure |-> Get(cookie, "secure", FALSE),
     sameSite |-> Get(cookie, "sameSite", "Lax")] @@ RestoredExpires(cookie)

\* agent_session_browser.py lines 96-122: the list given to add_cookies
PlaywrightCookies(cookies) ==
    [i \in 1..Len(cookies) |-> PlaywrightCookie(cookies[i])]

\* ---------------------------------------------------------------------------
\* injector_playwright.py: LeadInjector.inject_lead and main
\* ---------------------------------------------------------------------------

inputs == <<prog, argvKind, dataProxy, testLead>>

injOthers == <<manVars, agentVars, quantVars, selVars>>

\* An exception of kind k leaves the 'with' block of inject_lead for the
\* outer handlers: 'except Exception' takes every kind but a
\* KeyboardInterrupt, which only passes through 'finally'.
InjRaiseOuter(k) ==
    IF k = "interrupt"
    THEN pc' = "inj_finally" /\ result' = "KeyboardInterrupt" /\ exc' = ""
    ELSE pc' = "inj_except" /\ exc' = k /\ result' = result

\* An exception of kind k raised inside the form-interaction 'try' block:
\* 'except Exception' returns False, a KeyboardInterrupt propagates.
InjRaiseInner(k) ==
    /\ pc' = "inj_finally"
    /\ exc' = ""
    /\ result' = IF k = "interrupt" THEN "KeyboardInterrupt" ELSE "False"

\* return <value> inside the 'with' block: control goes to 'finally'.
InjReturn(v) ==
    /\ pc' = "inj_finally"
    /\ exc' = ""
    /\ result' = v

\* line 907: the navigation error is treated as a proxy expiration
NavErrorIsProxy(k) == k \in {"proxy", "timeout"}

\* HandleProxyExpiration reporting the expiration as handled.
HandleProxyExpiration_Handled == TRUE

\* lines 1467-1475: what _handle_proxy_expiration returns after printing
\* the PROXY_EXPIRED line
HandleProxyExpiration == FALSE

\* FinalReturnValue that lets a failed verification fail the run.
FinalReturnValue_Verified(verified) == IF verified THEN "True" ELSE "False"

\* lines 1321-1327: the value returned after FINAL_DOMAIN was printed, given
\* the result of the closing _verify_proxy_and_device
FinalReturnValue(verified) == "True"

\* NavRetryAllowed with the bound off by one.
NavRetryAllowed_OffByOne(a) == a < MAX_RETRIES

\* line 913: a further navigation attempt is made
NavRetryAllowed(a) == a < MAX_RETRIES - 1

\* line 1351: the outer handler treats the error as proxy related
OuterErrorIsProxy(k) == k = "proxy"

\* line 899 / _check_proxy_health: the outcomes the health check can have.
\* A configuration without 'host'/'port' raises KeyError inside the check,
\* which returns False.
ProxyHealthOutcomes(cfg) ==
    IF cfg = "complete" THEN {TRUE, FALSE} ELSE {FALSE}

\* InjFinallyCloses with close() reached on the success path only.
InjFinallyCloses_SuccessOnly(b) == b = "open" /\ result = "True"

\* line 1359: 'if browser:' in the finally block
InjFinallyCloses(b) == b = "open"

\* sync_playwright().__enter__ and p.chromium.launch
InjLaunch ==
    /\ prog = "inject" /\ pc = "inj_start"
    /\ \/ /\ browser' = "open"
          /\ trace' = Ev("launch")
          /\ pc' = "inj_context"
          /\ UNCHANGED <<exc, result>>
       \/ /\ \E k \in ExcKinds : InjRaiseOuter(k)
          /\ UNCHANGED <<browser, trace>>
    /\ UNCHANGED <<inputs, injOthers, findVars, proxy_config, attempt, fieldIdx, exitStatus>>

\* browser.new_context, context.new_page, page.evaluate (viewport meta)
InjContext ==
    /\ prog = "inject" /\ pc = "inj_context"
    /\ \/ /\ pc' = "inj_nav_check"
          /\ attempt' = 0
          /\ UNCHANGED <<exc, result>>
       \/ /\ \E k \in ExcKinds : InjRaiseOuter(k)
          /\ UNCHANGED attempt
    /\ UNCHANGED <<inputs, injOthers, findVars, proxy_config, browser, fieldIdx, exitStatus, trace>>

\* A health check made before the first attempt only.
HealthCheckPerformed_FirstAttemptOnly(cfg, a) == cfg # "none" /\ a = 0

\* line 899: 'if self.proxy_config and ...': the check is made in every
\* iteration, and only when a proxy configuration is set
HealthCheckPerformed(cfg, a) == cfg # "none"

\* head of one iteration of the navigation loop: the proxy health check
InjNavCheck ==
    /\ prog = "inject" /\ pc = "inj_nav_check"
    /\ IF HealthCheckPerformed(proxy_config, attempt)
       THEN \E healthy \in ProxyHealthOutcomes(proxy_config) :
              IF healthy
              THEN /\ trace' = Ev("health_ok")
                   /\ pc' = "inj_goto"
                   /\ UNCHANGED <<exc, result>>
              ELSE /\ trace' = Ev("health_failed")
                   /\ InjReturn("False")
       ELSE /\ pc' = "inj_goto"
            /\ UNCHANGED <<exc, result, trace>>
    /\ UNCHANGED <<inputs, injOthers, findVars, proxy_config, browser, attempt, fieldIdx, exitStatus>>

\* page.goto(target_url) of one iteration and its exception handler
InjGoto ==
    /\ prog = "inject" /\ pc = "inj_goto"
    /\ \/ /\ trace' = trace \o <<"goto", "goto_ok">>
          /\ pc' = "inj_postnav"
          /\ UNCHANGED <<exc, result, attempt>>
       \/ /\ trace' = trace \o <<"goto", "goto_interrupted">>
          /\ InjRaiseOuter("interrupt")
          /\ UNCHANGED attempt
       \/ \E k \in ExcMessages :
            LET printed == IF NavErrorIsProxy(k) THEN <<"PROXY_EXPIRED">> ELSE <<>>
            IN  IF NavErrorIsProxy(k) /\ ~HandleProxyExpiration
                THEN /\ trace' = trace \o <<"goto", "goto_failed">> \o printed
                     /\ InjReturn("False")
                     /\ UNCHANGED attempt
                ELSE IF NavRetryAllowed(attempt)
                     THEN /\ trace' = trace \o <<"goto", "goto_failed">> \o printed
                                            \o <<SleepEv(RETRY_DELAY)>>
                          /\ attempt' = attempt + 1
                          /\ pc' = "inj_nav_check"
                          /\ UNCHANGED <<exc, result>>
                     ELSE /\ trace' = trace \o <<"goto", "goto_failed">> \o printed
                          /\ InjReturn("False")
                          /\ UNCHANGED attempt
    /\ UNCHANGED <<inputs, injOthers, findVars, proxy_config, browser, fieldIdx, exitStatus>>

\* lines 923-994: page.title(), page.url (uncaught), the debug blocks and
\* _verify_proxy_and_device (which catch their own exceptions)
InjPostNav ==
    /\ prog = "inject" /\ pc = "inj_postnav"
    /\ \/ /\ pc' = "inj_form_wait"
          /\ trace' = Ev("verify")
          /\ UNCHANGED <<exc, result>>
       \/ /\ \E k \in ExcKinds : InjRaiseOuter(k)
          /\ UNCHANGED trace
    /\ UNCHANGED <<inputs, injOthers, findVars, proxy_config, browser, attempt, fieldIdx, exitStatus>>

\* lines 999-1042: wait_for_load_state and the waits for the form
InjFormWait ==
    /\ prog = "inject" /\ pc = "inj_form_wait"
    /\ \/ /\ pc' = "inj_field"
          /\ fieldIdx' = 1
          /\ UNCHANGED <<exc, result>>
       \/ /\ \E k \in ExcKinds : InjRaiseInner(k)
          /\ UNCHANGED fieldIdx
    /\ UNCHANGED <<inputs, injOthers, findVars, proxy_config, browser, attempt, exitStatus, trace>>

\* lines 1046-1057: the selectors of find_form_field, in list order
Selectors ==
    << "#id", "data-testid", "input-name", "placeholder", "aria-label", "id-contains",
       "MuiTextField-name", "MuiTextField-id", "MuiOutlinedInput-name" >>

\* What one page.wait_for_selector(selector, timeout=3000) followed by
\* element.is_visible() can give: a visible element, an element that is not
\* visible, or an exception (the timeout included).
SelectorOutcomes == {"visible", "hidden", "raised"}

\* SelectorAccepts without the visibility test.
SelectorAccepts_AnyElement(o) == o \in {"visible", "hidden"}

\* line 1062: 'if element and element.is_visible()'
SelectorAccepts(o) == o = "visible"

\* Most input elements on the page in the model.
MaxInputs == 2

\* An input element as the fallback scan sees it: not visible; visible with
\* an attribute that contains the field name or label; visible, no such
\* attribute, type 'text' or ''; visible, no such attribute, another type; or
\* an element whose inspection raises.
InputKinds == {"hidden", "match", "text", "other", "error"}

NoElement == [kind |-> "None", idx |-> 0]
NoInputs == [status |-> "unset", elems |-> <<>>]

\* lines 1076-1095: the scan returns input number i
InputAccepted(elems, i, field_name) ==
    \/ elems[i] = "match"
    \/ elems[i] = "text" /\ field_name = "firstName" /\ i = 1

\* lines 1069-1103: the element the attribute scan over all inputs returns
FallbackScan(elems, field_name) ==
    LET hits == {i \in DOMAIN elems : InputAccepted(elems, i, field_name)}
    IN  IF hits = {} THEN NoElement
        ELSE [kind |-> "input", idx |-> CHOOSE i \in hits : \A j \in hits : i <= j]

\* lines 1059-1066: find_form_field tries the next selector of the list; the
\* bare 'except' takes every exception, a KeyboardInterrupt included
FindFormFieldSelector ==
    /\ prog = "inject" /\ pc = "inj_field"
    /\ Len(sel_log) < Len(Selectors)
    /\ \E o \in SelectorOutcomes :
         LET k == Len(sel_log) + 1
         IN  /\ sel_log' = Append(sel_log, [selector |-> Selectors[k], visible |-> (o = "visible")])
             /\ IF SelectorAccepts(o)
                THEN /\ element' = [kind |-> "selector", idx |-> k]
                     /\ pc' = "inj_type"
                ELSE UNCHANGED <<element, pc>>
    /\ UNCHANGED <<inputs, injOthers, all_inputs, proxy_config, browser, attempt, fieldIdx,
                   exc, result, exitStatus, trace>>

\* lines 1068-1103: every selector failed; the scan over all input elements
FindFormFieldFallback ==
    /\ prog = "inject" /\ pc = "inj_field"
    /\ Len(sel_log) = Len(Selectors)
    /\ \/ /\ \E elems \in SeqsUpTo(InputKinds, MaxInputs) :
               /\ all_inputs' = [status |-> "ok", elems |-> elems]
               /\ element' = FallbackScan(elems, Fields[fieldIdx])
          /\ pc' = "inj_type"
          /\ UNCHANGED <<exc, result, sel_log>>
       \/ /\ all_inputs' = [status |-> "error", elems |-> <<>>]
          /\ element' = NoElement
          /\ pc' = "inj_type"
          /\ UNCHANGED <<exc, result, sel_log>>
       \/ /\ InjRaiseInner("interrupt")
          /\ sel_log' = <<>>
          /\ UNCHANGED <<all_inputs, element>>
    /\ UNCHANGED <<inputs, injOthers, proxy_config, browser, attempt, fieldIdx,
                   exitStatus, trace>>

\* lines 1107-1150, 1239-1244: 'if not <element>: return False', then
\* _human_like_typing into the element find_form_field returned
InjField ==
    /\ prog = "inject" /\ pc = "inj_type"
    /\ IF element = NoElement
       THEN /\ trace' = Ev("missing_" \o Fields[fieldIdx])
            /\ InjReturn("False")
            /\ UNCHANGED fieldIdx
       ELSE \/ /\ trace' = Ev("type_" \o Fields[fieldIdx])
               /\ IF fieldIdx = 3 THEN pc' = "inj_prefix" /\ fieldIdx' = fieldIdx
                  ELSE IF fieldIdx = Len(Fields) THEN pc' = "inj_submit" /\ fieldIdx' = fieldIdx
                  ELSE pc' = "inj_field" /\ fieldIdx' = fieldIdx + 1
               /\ UNCHANGED <<exc, result>>
            \/ /\ \E k \in ExcKinds : InjRaiseInner(k)
               /\ UNCHANGED <<fieldIdx, trace>>
    /\ sel_log' = <<>>
    /\ all_inputs' = NoInputs
    /\ element' = NoElement
    /\ UNCHANGED <<inputs, injOthers, proxy_config, browser, attempt, exitStatus>>

\* lines 1152-1234: the optional phone prefix dropdown
InjPrefix ==
    /\ prog = "inject" /\ pc = "inj_prefix"
    /\ \/ /\ pc' = "inj_field"
          /\ fieldIdx' = 4
          /\ UNCHANGED <<exc, result>>
       \/ /\ \E k \in ExcKinds : InjRaiseInner(k)
          /\ UNCHANGED fieldIdx
    /\ UNCHANGED <<inputs, injOthers, findVars, proxy_config, browser, attempt, exitStatus, trace>>

\* lines 1258-1264: the selectors of the submit button, in list order
SubmitSelectors ==
    << "#submitBtn", "data-testid", "button-type-submit", "has-text-Submit",
       "MuiButton-type-submit" >>

\* lines 1266-1273: the value of submit_button after the loop, from selector
\* k on, given what each wait_for_selector / is_visible gives.  A visible
\* element ends the loop; an element that is not visible stays in the
\* variable while the later selectors are tried; an exception leaves the
\* variable as it was.
RECURSIVE SubmitLookup(_, _, _)
SubmitLookup(outcomes, k, submit_button) ==
    IF k > Len(SubmitSelectors) THEN submit_button
    ELSE IF outcomes[k] = "visible" THEN "visible"
    ELSE IF outcomes[k] = "hidden" THEN SubmitLookup(outcomes, k + 1, "hidden")
    ELSE SubmitLookup(outcomes, k + 1, submit_button)

\* lines 1246-1280: screenshot, injection-mode flag, locate the submit button
\* and click it
InjSubmit ==
    /\ prog = "inject" /\ pc = "inj_submit"
    /\ \/ \E outcomes \in [DOMAIN SubmitSelectors -> SelectorOutcomes] :
            LET submit_button == SubmitLookup(outcomes, 1, "None")
            IN  IF submit_button = "None"
                THEN /\ trace' = Ev("missing_submit")
                     /\ InjReturn("False")
                ELSE \/ /\ trace' = Ev("click_submit")
                        /\ pc' = "inj_thanks"
                        /\ UNCHANGED <<exc, result>>
                     \/ /\ \E k \in ExcKinds : InjRaiseInner(k)
                        /\ UNCHANGED trace
       \/ /\ \E k \in ExcKinds : InjRaiseInner(k)
          /\ UNCHANGED trace
    /\ UNCHANGED <<inputs, injOthers, findVars, proxy_config, browser, attempt, fieldIdx, exitStatus>>

\* line 1285: what page.wait_for_selector('text="Thank You!"', timeout=30000)
\* can give: an element, None, a timeout or other error, a KeyboardInterrupt
MarkerOutcomes == {"element", "none", "timeout", "interrupt"}

\* MarkerFound that takes any returned value for the marker.
MarkerFound_AnyValue(success_message) == success_message \in {"element", "none"}

\* line 1286: 'if success_message:'
MarkerFound(success_message) == success_message = "element"

\* lines 1283-1286, 1328-1342: wait for 'Thank You!'; a missing marker and an
\* error of the wait both return False
InjThanks ==
    /\ prog = "inject" /\ pc = "inj_thanks"
    /\ \E o \in MarkerOutcomes :
         CASE o = "interrupt" ->
                /\ InjRaiseInner("interrupt")
                /\ UNCHANGED trace
           [] o = "timeout" ->
                /\ trace' = Ev("no_thank_you")
                /\ InjReturn("False")
           [] OTHER ->
                IF MarkerFound(o)
                THEN /\ trace' = Ev(IF o = "element" THEN "thank_you" ELSE "no_thank_you")
                     /\ pc' = "inj_final"
                     /\ UNCHANGED <<exc, result>>
                ELSE /\ trace' = Ev("no_thank_you")
                     /\ InjReturn("False")
    /\ UNCHANGED <<inputs, injOthers, findVars, proxy_config, browser, attempt, fieldIdx, exitStatus>>

\* lines 1294-1327: read the final URL, print FINAL_DOMAIN, verify, return True
InjFinal ==
    /\ prog = "inject" /\ pc = "inj_final"
    /\ \/ /\ trace' = Ev("FINAL_DOMAIN")
          /\ \E verified \in BOOLEAN : InjReturn(FinalReturnValue(verified))
       \/ /\ trace' = Ev("FINAL_DOMAIN")
          /\ InjRaiseInner("interrupt")
       \/ /\ \E k \in ExcKinds : InjRaiseInner(k)
          /\ UNCHANGED trace
    /\ UNCHANGED <<inputs, injOthers, findVars, proxy_config, browser, attempt, fieldIdx, exitStatus>>

\* lines 1350-1357: the outer 'except Exception'
InjExcept ==
    /\ prog = "inject" /\ pc = "inj_except"
    /\ trace' = IF OuterErrorIsProxy(exc) THEN Ev("PROXY_EXPIRED") ELSE trace
    /\ InjReturn("False")
    /\ UNCHANGED <<inputs, injOthers, findVars, proxy_config, browser, attempt, fieldIdx, exitStatus>>

\* lines 1358-1363: finally; a failing close() is swallowed by the bare except
InjFinally ==
    /\ prog = "inject" /\ pc = "inj_finally"
    /\ IF InjFinallyCloses(browser)
       THEN \E closed \in BOOLEAN :
              /\ trace' = IF closed THEN Ev("close") ELSE trace \o <<"close", "close_failed">>
              /\ browser' = IF closed THEN "closed" ELSE "open"
       ELSE UNCHANGED <<browser, trace>>
    /\ pc' = "main_ret"
    /\ UNCHANGED <<inputs, injOthers, findVars, proxy_config, attempt, fieldIdx, exc, result, exitStatus>>

\* line 1577: the script calls main() and discards what it returns, so the
\* interpreter ends with status 0 whenever main returns.
InjScriptStatus(mainReturned) == 0

\* lines 1525-1527
InjMainArgs ==
    /\ prog = "inject" /\ pc = "main_start"
    /\ IF argvKind = "none"
       THEN pc' = "exited" /\ exitStatus' = 1
       ELSE pc' = "main_parse" /\ UNCHANGED exitStatus
    /\ UNCHANGED <<inputs, injOthers, findVars, proxy_config, browser, attempt, fieldIdx, exc, result, trace>>

\* lines 1529-1555, 1565-1575: parse the argument and choose the proxy
InjMainParse ==
    /\ prog = "inject" /\ pc = "main_parse"
    /\ CASE argvKind = "badjson" ->
              /\ pc' = "exited" /\ exitStatus' = 1
              /\ UNCHANGED <<proxy_config, trace>>
         [] argvKind = "nondict" ->
              /\ pc' = "exited" /\ exitStatus' = InjScriptStatus("False")
              /\ trace' = Ev("main_caught")
              /\ UNCHANGED proxy_config
         [] OTHER ->
              /\ pc' = "inj_start" /\ UNCHANGED <<exitStatus, trace>>
              /\ IF dataProxy # "none" THEN proxy_config' = dataProxy
                 ELSE IF testLead THEN proxy_config' = "none"
                 ELSE proxy_config' \in {"none", "incomplete"}
    /\ UNCHANGED <<inputs, injOthers, findVars, browser, attempt, fieldIdx, exc, result>>

\* lines 1556-1563 and 1577: main returns what inject_lead returned
InjMainRet ==
    /\ prog = "inject" /\ pc = "main_ret"
    /\ pc' = "exited"
    /\ exitStatus' = IF result = "KeyboardInterrupt" THEN 130 ELSE InjScriptStatus(result)
    /\ UNCHANGED <<inputs, injOthers, findVars, proxy_config, browser, attempt, fieldIdx, exc, result, trace>>

InjectNext ==
    \/ InjMainArgs \/ InjMainParse \/ InjLaunch \/ InjContext \/ InjNavCheck
    \/ InjGoto \/ InjPostNav \/ InjFormWait
    \/ FindFormFieldSelector \/ FindFormFieldFallback \/ InjField \/ InjPrefix
    \/ InjSubmit \/ InjThanks \/ InjFinal \/ InjExcept \/ InjFinally
    \/ InjMainRet

\* ---------------------------------------------------------------------------
\* manual_injector_playwright.py: ManualLeadInjector.open_manual_injection_browser
\* ---------------------------------------------------------------------------

manOthers == <<argvKind, dataProxy, testLead, fieldIdx, exc, exitStatus, agentVars, quantVars, findVars,
              selVars>>

\* lines 371-374: 'except Exception' returns False; a KeyboardInterrupt
\* outside the wait loop's 'try' leaves the method through 'finally'.
ManRaiseOuter(k) ==
    /\ pc' = "man_finally"
    /\ result' = IF k = "interrupt" THEN "KeyboardInterrupt" ELSE "False"

\* lines 198-201: without a proxy configuration the method calls sys.exit(1)
ManProxyMissing(cfg) == cfg = "none"

\* manual_injector_playwright.py: MAX_RETRIES, RETRY_DELAY
ManualMaxRetries == 3
ManualRetryDelay == 2

\* A pause after every failed attempt, the last one included.
ManRetryPause_AfterLast(a) == a < ManualMaxRetries

\* line 262: a pause follows the failed attempt
ManRetryPause(a) == a < ManualMaxRetries - 1

\* line 376: 'if browser:' in the finally block
ManFinallyCloses(b) == b = "open"

\* lines 193-201
ManStart ==
    /\ prog = "manual" /\ pc = "man_start"
    /\ IF ManProxyMissing(proxy_config)
       THEN /\ pc' = "man_finally"
            /\ result' = "SystemExit"
            /\ trace' = Ev("sys_exit_1")
       ELSE /\ pc' = "man_launch"
            /\ UNCHANGED <<result, trace>>
    /\ UNCHANGED <<prog, proxy_config, browser, attempt, manVars, manOthers>>

\* lines 203-206: sync_playwright().__enter__ and p.chromium.launch
ManLaunch ==
    /\ prog = "manual" /\ pc = "man_launch"
    /\ \/ /\ browser' = "open"
          /\ trace' = Ev("launch")
          /\ pc' = "man_context"
          /\ UNCHANGED result
       \/ /\ \E k \in ExcKinds : ManRaiseOuter(k)
          /\ UNCHANGED <<browser, trace>>
    /\ UNCHANGED <<prog, proxy_config, attempt, manVars, manOthers>>

\* lines 208-250: new_context, new_page, fingerprint, viewport meta
ManContext ==
    /\ prog = "manual" /\ pc = "man_context"
    /\ \/ /\ pc' = "man_goto"
          /\ attempt' = 0
          /\ UNCHANGED result
       \/ /\ \E k \in ExcKinds : ManRaiseOuter(k)
          /\ UNCHANGED attempt
    /\ UNCHANGED <<prog, proxy_config, browser, trace, manVars, manOthers>>

\* lines 255-268: one iteration of the navigation loop, and the check after
\* the loop when it was the last one; a KeyboardInterrupt may arrive during
\* page.goto or during time.sleep
ManGoto ==
    /\ prog = "manual" /\ pc = "man_goto"
    /\ \/ /\ trace' = trace \o <<"goto", "goto_ok">>
          /\ pc' = "man_loaded"
          /\ UNCHANGED <<attempt, result>>
       \/ /\ trace' = trace \o <<"goto", "goto_interrupted">>
          /\ ManRaiseOuter("interrupt")
          /\ UNCHANGED attempt
       \/ /\ trace' = trace \o <<"goto", "goto_failed">>
                        \o (IF ManRetryPause(attempt) THEN <<SleepEv(ManualRetryDelay)>> ELSE <<>>)
          /\ attempt' = attempt + 1
          /\ IF attempt + 1 < ManualMaxRetries
             THEN pc' = "man_goto" /\ UNCHANGED result
             ELSE pc' = "man_finally" /\ result' = "False"
       \/ /\ ManRetryPause(attempt)
          /\ trace' = trace \o <<"goto", "goto_failed", SleepEv(ManualRetryDelay),
                                  "sleep_interrupted">>
          /\ ManRaiseOuter("interrupt")
          /\ UNCHANGED attempt
    /\ UNCHANGED <<prog, proxy_config, browser, manVars, manOthers>>

\* lines 270-275: screenshot, then the injection-mode flag
ManLoaded ==
    /\ prog = "manual" /\ pc = "man_loaded"
    /\ \/ /\ pc' = "man_autofill" /\ UNCHANGED result
       \/ \E k \in ExcKinds : ManRaiseOuter(k)
    /\ UNCHANGED <<prog, proxy_config, browser, attempt, trace, manVars, manOthers>>

\* lines 277-302: _auto_fill_form (returns False on any Exception)
ManAutoFill ==
    /\ prog = "manual" /\ pc = "man_autofill"
    /\ \/ /\ \E filled \in BOOLEAN :
               trace' = Ev(IF filled THEN "autofill_ok" ELSE "autofill_failed")
          /\ pc' = "man_wait"
          /\ UNCHANGED result
       \/ /\ ManRaiseOuter("interrupt")
          /\ UNCHANGED trace
    /\ UNCHANGED <<prog, proxy_config, browser, attempt, manVars, manOthers>>

\* The URLs the page may show while the operator works in it.
PageUrls == {"landing", "thanks"}

\* The event of reading page.url
UrlEv(u) == "url_" \o u

\* A flag that follows the last comparison instead of keeping what it saw.
NextFormSubmitted_NotLatched(submitted, current_url, last) == current_url # last

\* lines 316-319: 'if current_url != last_url and not form_submitted:
\* form_submitted = True'; nothing in the loop sets it back
NextFormSubmitted(submitted, current_url, last) == submitted \/ current_url # last

\* lines 305-307: last_url = page.url; form_submitted = False
ManWaitInit ==
    /\ prog = "manual" /\ pc = "man_wait"
    /\ \/ /\ pc' = "man_poll"
          /\ \E u \in PageUrls :
               /\ last_url' = u
               /\ trace' = Ev(UrlEv(u))
          /\ form_submitted' = FALSE
          /\ polls' = 0
          /\ UNCHANGED <<result, lead_data, send_call>>
       \/ /\ \E k \in ExcMessages : ManRaiseOuter(k)
          /\ UNCHANGED <<manVars, trace>>
       \/ /\ pc' = "man_interrupted"
          /\ UNCHANGED <<result, manVars, trace>>
    /\ UNCHANGED <<prog, proxy_config, browser, attempt, manOthers>>

\* lines 310-339: one iteration of the wait loop.  The loop ends when
\* page.url raises: the operator closed the browser ("browser_closed"), or
\* the read failed for another reason with the page still there
\* ("url_raised"); the code takes both for a closed browser.
ManPoll ==
    /\ prog = "manual" /\ pc = "man_poll"
    /\ \/ /\ \E closed \in BOOLEAN :
               trace' = Ev(IF closed THEN "browser_closed" ELSE "url_raised")
          /\ pc' = "man_capture"
          /\ UNCHANGED manVars
       \/ /\ polls < MaxPolls
          /\ \E current_url \in PageUrls :
               /\ form_submitted' = NextFormSubmitted(form_submitted, current_url, last_url)
               /\ trace' = trace \o <<UrlEv(current_url)>>
                              \o (IF current_url # last_url /\ ~form_submitted
                                  THEN <<"screenshot_form_submitted">> ELSE <<>>)
               /\ last_url' = current_url
          /\ polls' = polls + 1
          /\ pc' = "man_poll"
          /\ UNCHANGED <<lead_data, send_call>>
       \/ /\ pc' = "man_interrupted"
          /\ UNCHANGED <<manVars, trace>>
    /\ UNCHANGED <<prog, proxy_config, browser, attempt, result, manOthers>>

\* The page can still be read: the operator has not closed the browser.
PageOpen == ~Has(trace, "browser_closed")

\* What a lead may carry under 'leadId' and under '_id': no entry, an empty
\* value, or an identifier.
IdKinds == {"absent", "empty", "set"}
LeadIds == [leadId : IdKinds, _id : {"absent", "set"}]
NoLeadIds == [leadId |-> "absent", _id |-> "absent"]

\* line 550: lead_data.get('leadId') or lead_data.get('_id'), as a truth value
LeadIdFound(ld) == ld.leadId = "set" \/ ld._id = "set"

\* What requests.post and the backend may do: the call raises a
\* RequestException, another Exception or is cut by a KeyboardInterrupt, or
\* it returns a response with a status code and a body that response.json()
\* can parse or not.
StatusCodes == {200, 201, 400, 500}
SendEnvs ==
    {[post |-> p, status_code |-> 0, json_ok |-> FALSE] :
        p \in {"network_error", "other_error", "interrupt"}}
    \cup {[post |-> "ok", status_code |-> s, json_ok |-> j] : s \in StatusCodes, j \in BOOLEAN}

\* A status check that does not read the body.
StoredByBackend_StatusOnly(e) == e.status_code \in {200, 201}

\* lines 576-580: 'if response.status_code == 200 or response.status_code ==
\* 201: result = response.json() ... return True'; a body that is not JSON
\* makes response.json() raise, which the handlers of lines 585-591 turn into
\* False
StoredByBackend(e) == e.status_code \in {200, 201} /\ e.json_ok

\* _send_session_to_backend (lines 545-592): whether requests.post was
\* called, and what the method returned ("KeyboardInterrupt": it did not
\* return, the interrupt is not an Exception and passes both handlers).
SendSessionToBackend(ld, e) ==
    IF ~LeadIdFound(ld) THEN [requested |-> FALSE, ret |-> "False"]
    ELSE IF e.post = "interrupt" THEN [requested |-> TRUE, ret |-> "KeyboardInterrupt"]
    ELSE IF e.post # "ok" THEN [requested |-> TRUE, ret |-> "False"]
    ELSE IF StoredByBackend(e) THEN [requested |-> TRUE, ret |-> "True"]
    ELSE [requested |-> TRUE, ret |-> "False"]

NoCall == [called |-> FALSE]

SendCall(ld, e) == [called |-> TRUE, env |-> e] @@ SendSessionToBackend(ld, e)

\* _capture_and_store_session (lines 447-543): what one call may do.  With
\* the browser closed the first reads (page.url, page.context.cookies())
\* raise and the method returns False from its 'except Exception'
\* ("read_failed"); with the page open the cookies and both storages are
\* read ("session_read"); then either the user-agent read raises
\* ("prepare_failed") or the session is handed to _send_session_to_backend
\* ("sent").
CaptureOutcomes == {"read_failed", "prepare_failed", "sent"}

CapturePossible(o) == PageOpen \/ o = "read_failed"

\* The events of one call: the flag it got, what it read, whether it posted,
\* and how it ended.
CaptureRun(success_status, o, call) ==
    <<IF success_status THEN "capture_flag_true" ELSE "capture_flag_false">>
      \o (CASE o = "read_failed"    -> <<"session_not_stored">>
            [] o = "prepare_failed" -> <<"session_read", "session_not_stored">>
            [] o = "sent" ->
                 <<"session_read">>
                   \o (IF call.requested THEN <<"post">> ELSE <<>>)
                   \o <<CASE call.ret = "True" -> "session_stored"
                          [] call.ret = "False" -> "session_not_stored"
                          [] OTHER -> "capture_interrupted">>)

\* A run that only succeeds when the session was stored.
ResultAfterCapture_NeedsSession(session_success) ==
    IF session_success THEN "True" ELSE "False"

\* lines 345-359: session_success only chooses the message; 'return True'
ResultAfterCapture(session_success) == "True"

\* lines 341-359: _capture_and_store_session(page, lead_data, form_submitted)
\* after the wait loop ended; a KeyboardInterrupt during the call goes to
\* the handler of line 361
ManCapture ==
    /\ prog = "manual" /\ pc = "man_capture"
    /\ \/ \E o \in CaptureOutcomes, e \in SendEnvs :
            LET call == IF o = "sent" THEN SendCall(lead_data, e) ELSE send_call
            IN  /\ CapturePossible(o)
                /\ o # "sent" => e = CHOOSE x \in SendEnvs : TRUE
                /\ trace' = trace \o CaptureRun(form_submitted, o, call)
                /\ send_call' = call
                /\ IF o = "sent" /\ call.ret = "KeyboardInterrupt"
                   THEN pc' = "man_interrupted" /\ UNCHANGED result
                   ELSE /\ pc' = "man_finally"
                        /\ result' = ResultAfterCapture(o = "sent" /\ call.ret = "True")
       \/ /\ trace' = Ev(IF form_submitted THEN "capture_flag_true" ELSE "capture_flag_false")
          /\ pc' = "man_interrupted"
          /\ UNCHANGED <<result, send_call>>
    /\ UNCHANGED <<prog, proxy_config, browser, attempt, form_submitted, polls, last_url,
                   lead_data, manOthers>>

\* lines 361-369: except KeyboardInterrupt; the capture is tried with
\* success_status False inside a bare 'except', then 'return True'
ManInterrupted ==
    /\ prog = "manual" /\ pc = "man_interrupted"
    /\ \E o \in CaptureOutcomes, e \in SendEnvs :
         LET call == IF o = "sent" THEN SendCall(lead_data, e) ELSE send_call
         IN  /\ CapturePossible(o)
             /\ o # "sent" => e = CHOOSE x \in SendEnvs : TRUE
             /\ trace' = trace \o <<"interrupted">> \o CaptureRun(FALSE, o, call)
             /\ send_call' = call
    /\ pc' = "man_finally"
    /\ result' = "True"
    /\ UNCHANGED <<prog, proxy_config, browser, attempt, form_submitted, polls, last_url,
                   lead_data, manOthers>>

\* lines 375-380: finally; a failing close() is swallowed by the bare except
ManFinally ==
    /\ prog = "manual" /\ pc = "man_finally"
    /\ IF ManFinallyCloses(browser)
       THEN \E closed \in BOOLEAN :
              /\ trace' = IF closed THEN Ev("close") ELSE trace \o <<"close", "close_failed">>
              /\ browser' = IF closed THEN "closed" ELSE "open"
       ELSE UNCHANGED <<browser, trace>>
    /\ pc' = "man_done"
    /\ UNCHANGED <<prog, proxy_config, attempt, result, manVars, manOthers>>

ManualNext ==
    \/ ManStart \/ ManLaunch \/ ManContext \/ ManGoto \/ ManLoaded
    \/ ManAutoFill \/ ManWaitInit \/ ManPoll \/ ManCapture \/ ManInterrupted
    \/ ManFinally

\* ---------------------------------------------------------------------------
\* agent_session_browser.py: main and AgentSessionBrowser
\* ---------------------------------------------------------------------------

\* Text is a sequence of one-character strings.
HTTP == <<"h", "t", "t", "p", ":", "/", "/">>
HTTPS == <<"h", "t", "t", "p", "s", ":", "/", "/">>
GOOGLE == HTTPS \o <<"w", "w", "w", ".", "g", "o", "o", "g", "l", "e", ".", "c", "o", "m">>

\* str.startswith(prefix)
StartsWith(s, prefix) ==
    Len(s) >= Len(prefix) /\ SubSeq(s, 1, Len(prefix)) = prefix

\* Values of session_data['domain'] in the model: key absent, "", "a.co",
\* "http://a.co", "https://a.co", and "http:/a.co" (one slash short).
ACO == <<"a", ".", "c", "o">>
SampleDomains ==
    { [present |-> FALSE, text |-> <<>>],
      [present |-> TRUE, text |-> <<>>],
      [present |-> TRUE, text |-> ACO],
      [present |-> TRUE, text |-> HTTP \o ACO],
      [present |-> TRUE, text |-> HTTPS \o ACO],
      [present |-> TRUE, text |-> <<"h", "t", "t", "p", ":", "/">> \o ACO] }

\* session_data.get('domain') is truthy
HasDomain(sd) == sd.domain.present /\ sd.domain.text # <<>>

\* NavTarget testing for the prefix "http" instead of the two schemes.
NavTarget_HttpPrefix(sd) ==
    IF HasDomain(sd)
    THEN IF ~StartsWith(sd.domain.text, <<"h", "t", "t", "p">>)
         THEN HTTPS \o sd.domain.text
         ELSE sd.domain.text
    ELSE GOOGLE

\* lines 290-302: the URL navigate_to_domain goes to first
NavTarget(sd) ==
    IF HasDomain(sd)
    THEN IF ~(StartsWith(sd.domain.text, HTTP) \/ StartsWith(sd.domain.text, HTTPS))
         THEN HTTPS \o sd.domain.text
         ELSE sd.domain.text
    ELSE GOOGLE

\* lines 96 and 129: "'cookies' in self.session_data and self.session_data['cookies']"
HasCookies(sd) == sd.cookies # <<>>

\* line 616: 'if self.browser:' in the finally block of run
RunFinallyCloses(b) == b = "open"

\* AgentExitStatus treating a keyboard interrupt as a failure.
AgentExitStatus_InterruptFails(res) == IF res = "True" THEN 0 ELSE 1

\* lines 653-662: the status main exits with after asyncio.run
AgentExitStatus(res) ==
    IF res = "True" THEN 0
    ELSE IF res = "KeyboardInterrupt" THEN 0
    ELSE 1

agOthers == <<argvKind, dataProxy, testLead, proxy_config, attempt, fieldIdx, exc,
              jar, session_data, manVars, quantVars, findVars, selVars>>

\* run returns v (or is left by a KeyboardInterrupt) and enters 'finally'
RunReturn(v) ==
    /\ pc' = "run_finally"
    /\ result' = v

\* lines 624-651: argparse, json.loads, the required fields
AgMainParse ==
    /\ prog = "agent" /\ pc = "ag_main"
    /\ CASE argvKind = "usage" ->
              pc' = "exited" /\ exitStatus' = 2
         [] argvKind \in {"badjson", "scalar", "no_leadId", "no_sessionId"} ->
              pc' = "exited" /\ exitStatus' = 1
         [] OTHER ->
              pc' = "run_start" /\ UNCHANGED exitStatus
    /\ UNCHANGED <<prog, browser, result, trace, ctx_cookies, page_store,
                   navigation_success, gotos, agOthers>>

\* lines 557-571: the logging prelude of run reads self.session_data
AgRunStart ==
    /\ prog = "agent" /\ pc = "run_start"
    /\ IF argvKind = "nondict"
       THEN RunReturn("False")
       ELSE pc' = "setup_launch" /\ UNCHANGED result
    /\ UNCHANGED <<prog, browser, exitStatus, trace, ctx_cookies, page_store,
                   navigation_success, gotos, agOthers>>

\* setup_browser lines 37-81: start Playwright, launch the browser
AgSetupLaunch ==
    /\ prog = "agent" /\ pc = "setup_launch"
    /\ \/ /\ browser' = "open"
          /\ trace' = Ev("launch")
          /\ pc' = "setup_context"
          /\ UNCHANGED result
       \/ /\ RunReturn("False")
          /\ trace' = Ev("setup_failed")
          /\ UNCHANGED browser
       \/ /\ RunReturn("KeyboardInterrupt")
          /\ UNCHANGED <<browser, trace>>
    /\ UNCHANGED <<prog, exitStatus, ctx_cookies, page_store,
                   navigation_success, gotos, agOthers>>

\* setup_browser lines 84-126: convert the cookies, create the context
AgSetupContext ==
    /\ prog = "agent" /\ pc = "setup_context"
    /\ \/ /\ pc' = "setup_cookies"
          /\ UNCHANGED <<result, trace>>
       \/ /\ RunReturn("False")
          /\ trace' = Ev("setup_failed")
    /\ UNCHANGED <<prog, browser, exitStatus, ctx_cookies, page_store,
                   navigation_success, gotos, agOthers>>

\* setup_browser lines 128-134: add the converted cookies to the context;
\* an error of add_cookies is logged and setup goes on
AgSetupCookies ==
    /\ prog = "agent" /\ pc = "setup_cookies"
    /\ IF HasCookies(session_data)
       THEN \E added \in BOOLEAN :
              /\ ctx_cookies' = IF added THEN PlaywrightCookies(session_data.cookies) ELSE ctx_cookies
              /\ trace' = Ev(IF added THEN "cookies_added" ELSE "cookies_rejected")
       ELSE UNCHANGED <<ctx_cookies, trace>>
    /\ pc' = "setup_page"
    /\ UNCHANGED <<prog, browser, result, exitStatus, page_store,
                   navigation_success, gotos, agOthers>>

\* The storage restored before the first navigation.
FirstStepAfterSetup_RestoreFirst == "restore"

\* lines 577-581: what run does first once setup_browser returned True:
\* navigate_to_domain, and only then restore_session_storage
FirstStepAfterSetup == "nav1"

\* setup_browser lines 136-148: new page, fingerprint, return True
AgSetupPage ==
    /\ prog = "agent" /\ pc = "setup_page"
    /\ \/ /\ pc' = FirstStepAfterSetup
          /\ trace' = Ev("setup_ok")
          /\ UNCHANGED result
       \/ /\ RunReturn("False")
          /\ trace' = Ev("setup_failed")
    /\ UNCHANGED <<prog, browser, exitStatus, ctx_cookies, page_store,
                   navigation_success, gotos, agOthers>>

\* navigate_to_domain (lines 287-324), called at lines 578 and 586: goto the
\* target; on any error goto Google; False only when both failed
AgNavigate ==
    /\ prog = "agent" /\ pc \in {"nav1", "nav2"}
    /\ pc = "nav2" => HasDomain(session_data) /\ ~navigation_success
    /\ \/ /\ gotos' = Append(gotos, NavTarget(session_data))
          /\ trace' = trace \o <<"navigate", "goto_ok">>
          /\ navigation_success' = TRUE
          /\ pc' = IF pc = "nav1" THEN "restore" ELSE "nav3"
          /\ UNCHANGED result
       \/ /\ \E fallback \in BOOLEAN :
               /\ trace' = trace \o <<"navigate", "goto_failed",
                                      IF fallback THEN "goto_ok" ELSE "goto_failed">>
               /\ navigation_success' = fallback
          /\ gotos' = gotos \o <<NavTarget(session_data), GOOGLE>>
          /\ pc' = IF pc = "nav1" THEN "restore" ELSE "nav3"
          /\ UNCHANGED result
       \/ /\ gotos' = Append(gotos, NavTarget(session_data))
          /\ trace' = trace \o <<"navigate", "goto_interrupted">>
          /\ RunReturn("KeyboardInterrupt")
          /\ UNCHANGED navigation_success
    /\ UNCHANGED <<prog, browser, exitStatus, ctx_cookies, page_store, agOthers>>

\* The outcomes of the page.goto calls so far, in order; the k-th belongs to
\* gotos[k].
GotoOutcomes ==
    SelectSeq(trace, LAMBDA e : e \in {"goto_ok", "goto_failed", "goto_interrupted"})

\* The URL the page shows: that of the last page.goto that succeeded, <<>>
\* (the blank page the browser opens with) when none did.
LoadedPage ==
    LET oks == {k \in DOMAIN GotoOutcomes : GotoOutcomes[k] = "goto_ok"}
    IN  IF oks = {} THEN <<>>
        ELSE gotos[CHOOSE k \in oks : \A j \in oks : j <= k]

\* restore_session_storage (lines 249-285), called at line 581.  Each
\* page.evaluate writes every entry ("ok"), writes none because the page
\* refuses storage access inside the script's own try/catch ("refused"), or
\* raises ("raised"), which skips what is left of the method.  The method
\* does not look at which page is loaded; the blank page gives a script no
\* storage to write to.
AgRestore ==
    /\ prog = "agent" /\ pc = "restore"
    /\ \E o1, o2 \in {"ok", "refused", "raised"} :
         LET doLs == session_data.localStorage # {}
             lsRaised == doLs /\ o1 = "raised"
             doSs == ~lsRaised /\ session_data.sessionStorage # {}
         IN  /\ ~doLs => o1 = "ok"
             /\ ~doSs => o2 = "ok"
             /\ (doLs /\ LoadedPage = <<>>) => o1 # "ok"
             /\ (doSs /\ LoadedPage = <<>>) => o2 # "ok"
             /\ page_store' =
                  [localStorage |-> IF doLs /\ o1 = "ok" THEN session_data.localStorage ELSE {},
                   sessionStorage |-> IF doSs /\ o2 = "ok" THEN session_data.sessionStorage ELSE {},
                   status |-> <<IF doLs THEN o1 ELSE "skipped", IF doSs THEN o2 ELSE "skipped">>]
    /\ trace' = Ev("restore_storage")
    /\ pc' = "nav2"
    /\ UNCHANGED <<prog, browser, result, exitStatus, ctx_cookies,
                   navigation_success, gotos, agOthers>>

\* line 584: no second navigate_to_domain
AgSkipRetry ==
    /\ prog = "agent" /\ pc = "nav2"
    /\ ~(HasDomain(session_data) /\ ~navigation_success)
    /\ pc' = "nav3"
    /\ UNCHANGED <<prog, browser, result, exitStatus, trace, ctx_cookies, page_store,
                   navigation_success, gotos, agOthers>>

\* A failed final attempt that ends run.
NavigationFailureEndsRun_Fatal == TRUE

\* lines 594-596: the failure of the final attempt is logged and run goes on
NavigationFailureEndsRun == FALSE

\* lines 588-596: the final attempt on Google, then on to the page set-up
AgFinalGoto ==
    /\ prog = "agent" /\ pc = "nav3"
    /\ IF ~navigation_success
       THEN /\ gotos' = Append(gotos, GOOGLE)
            /\ \E ok \in BOOLEAN :
                 /\ trace' = trace \o <<"final_goto", IF ok THEN "goto_ok" ELSE "goto_failed">>
                 /\ IF ~ok /\ NavigationFailureEndsRun
                    THEN RunReturn("False")
                    ELSE pc' = "page_info" /\ UNCHANGED result
       ELSE /\ pc' = "page_info"
            /\ UNCHANGED <<gotos, trace, result>>
    /\ UNCHANGED <<prog, browser, exitStatus, ctx_cookies, page_store,
                   navigation_success, agOthers>>

\* lines 598-607: setup_page_info, auto_fill_ftd_form, keep_browser_open
\* (each catches its own Exception), return True
AgServe ==
    /\ prog = "agent" /\ pc \in {"page_info", "auto_fill", "keep_open"}
    /\ \/ /\ pc = "page_info" /\ pc' = "auto_fill"
          /\ trace' = Ev("setup_page_info") /\ UNCHANGED result
       \/ /\ pc = "auto_fill" /\ pc' = "keep_open"
          /\ trace' = Ev("auto_fill_ftd_form") /\ UNCHANGED result
       \/ /\ pc = "keep_open"
          /\ trace' = Ev("keep_browser_open")
          /\ \E v \in {"True", "KeyboardInterrupt"} : RunReturn(v)
    /\ UNCHANGED <<prog, browser, exitStatus, ctx_cookies, page_store,
                   navigation_success, gotos, agOthers>>

\* lines 613-620: finally; an error of close() is logged, not raised
AgRunFinally ==
    /\ prog = "agent" /\ pc = "run_finally"
    /\ IF RunFinallyCloses(browser)
       THEN \E closed \in BOOLEAN :
              /\ trace' = IF closed THEN Ev("close") ELSE trace \o <<"close", "close_failed">>
              /\ browser' = IF closed THEN "closed" ELSE "open"
       ELSE UNCHANGED <<browser, trace>>
    /\ pc' = "ag_main_ret"
    /\ UNCHANGED <<prog, result, exitStatus, ctx_cookies, page_store,
                   navigation_success, gotos, agOthers>>

\* lines 651-665: sys.exit with the status for what run did
AgMainRet ==
    /\ prog = "agent" /\ pc = "ag_main_ret"
    /\ pc' = "exited"
    /\ exitStatus' = AgentExitStatus(result)
    /\ UNCHANGED <<prog, browser, result, trace, ctx_cookies, page_store,
                   navigation_success, gotos, agOthers>>

AgentNext ==
    \/ AgMainParse \/ AgRunStart \/ AgSetupLaunch \/ AgSetupContext
    \/ AgSetupCookies \/ AgSetupPage \/ AgNavigate \/ AgRestore \/ AgSkipRetry
    \/ AgFinalGoto \/ AgServe \/ AgRunFinally \/ AgMainRet

\* ---------------------------------------------------------------------------
\* quantumai_injector_playwright.py: main and QuantumAIInjector.inject_lead
\* ---------------------------------------------------------------------------

\* The forms inject_lead tries, in source order (lines 538, 551, 563).
Forms == <<"myform1", "myform2", "myform3">>

qOthers == <<argvKind, dataProxy, testLead, proxy_config, attempt, exc,
             manVars, agentVars, findVars, selVars>>

\* lines 583-593: 'except Exception' returns False; KeyboardInterrupt passes
QRaise(k) ==
    /\ pc' = "q_finally"
    /\ result' = IF k = "interrupt" THEN "KeyboardInterrupt" ELSE "False"

\* Forms that are tried whatever the earlier ones did.
FormAttempted_IgnoresSuccess(i, succ, popup) == i < 3 \/ popup

\* lines 549 and 561: whether form number i is attempted
FormAttempted(i, succ, popup) ==
    CASE i = 1 -> TRUE
      [] i = 2 -> ~succ
      [] OTHER -> ~succ /\ popup

\* line 595: 'if browser:' in the finally block
QFinallyCloses(b) == b = "open"

\* QuantumExitStatus of a main that returns the outcome instead of exiting
\* with it.
QuantumExitStatus_Discarded(res) == 0

\* lines 624-629: the status main exits with for what inject_lead returned
QuantumExitStatus(res) == IF res = "True" THEN 0 ELSE 1

\* lines 603-616: argument count, json.loads, lead_data.get
QMainParse ==
    /\ prog = "quantum" /\ pc = "q_main"
    /\ IF argvKind \in {"count", "badjson", "nondict"}
       THEN pc' = "exited" /\ exitStatus' = 1
       ELSE pc' = "q_launch" /\ UNCHANGED exitStatus
    /\ UNCHANGED <<prog, browser, fieldIdx, result, trace, quantVars, qOthers>>

\* lines 496-498: sync_playwright().__enter__ and p.chromium.launch
QLaunch ==
    /\ prog = "quantum" /\ pc = "q_launch"
    /\ \/ /\ browser' = "open"
          /\ trace' = Ev("launch")
          /\ pc' = "q_open"
          /\ UNCHANGED result
       \/ /\ \E k \in ExcKinds : QRaise(k)
          /\ UNCHANGED <<browser, trace>>
    /\ UNCHANGED <<prog, fieldIdx, exitStatus, quantVars, qOthers>>

\* lines 501-536: context, page, goto, popup detection, scroll to the form
QOpen ==
    /\ prog = "quantum" /\ pc = "q_open"
    /\ \/ /\ trace' = trace \o <<"goto", "goto_ok">>
          /\ popup_visible' \in BOOLEAN
          /\ success' = FALSE
          /\ fieldIdx' = 1
          /\ pc' = "q_form"
          /\ UNCHANGED result
       \/ /\ \E k \in ExcKinds : QRaise(k)
          /\ trace' = trace \o <<"goto", "goto_failed">>
          /\ UNCHANGED <<quantVars, fieldIdx>>
    /\ UNCHANGED <<prog, browser, exitStatus, qOthers>>

\* What one attempt on a form may come to: _fill_quantumai_form returned
\* False; _submit_quantumai_form found no button (line 444) or failed before
\* or in submit_button.click() (lines 447-452) and returned False; the click
\* was made and no success indicator showed, or one did; a
\* KeyboardInterrupt arrived in the sleep that follows the click (line 456).
FormOutcomes ==
    {"fill_failed", "no_button", "click_failed", "clicked", "clicked_indicator",
     "clicked_interrupted"}

Clicked(o) == o \in {"clicked", "clicked_indicator", "clicked_interrupted"}

\* A submit that reports success only when an indicator was found.
SubmitReturns_NeedsIndicator(o) == o = "clicked_indicator"

\* lines 461-482: the success indicators are only looked for and printed;
\* after the click the method ends in 'return True'
SubmitReturns(o) == o \in {"clicked", "clicked_indicator"}

\* The events of one attempt on form f
FormRun(f, o) ==
    <<"fill_" \o f>>
      \o (IF o = "fill_failed" THEN <<>> ELSE <<"submit_" \o f>>)
      \o (IF Clicked(o) THEN <<"click_" \o f>> ELSE <<>>)
      \o (IF o # "fill_failed" /\ o # "clicked_interrupted" /\ SubmitReturns(o)
          THEN <<"submitted_" \o f>> ELSE <<>>)

\* lines 538-568: one form: _fill_quantumai_form, then _submit_quantumai_form
QForm ==
    /\ prog = "quantum" /\ pc = "q_form"
    /\ IF FormAttempted(fieldIdx, success, popup_visible)
       THEN \/ /\ \E o \in FormOutcomes :
                    /\ trace' = trace \o FormRun(Forms[fieldIdx], o)
                    /\ IF o = "clicked_interrupted"
                       THEN /\ QRaise("interrupt")
                            /\ UNCHANGED <<success, fieldIdx>>
                       ELSE /\ success' = (o # "fill_failed" /\ SubmitReturns(o))
                            /\ IF fieldIdx < Len(Forms)
                               THEN pc' = "q_form" /\ fieldIdx' = fieldIdx + 1
                               ELSE pc' = "q_result" /\ fieldIdx' = fieldIdx
                            /\ UNCHANGED result
            \/ /\ fieldIdx = 2
               /\ \E k \in ExcKinds : QRaise(k)
               /\ UNCHANGED <<success, trace, fieldIdx>>
       ELSE /\ IF fieldIdx < Len(Forms)
               THEN pc' = "q_form" /\ fieldIdx' = fieldIdx + 1
               ELSE pc' = "q_result" /\ fieldIdx' = fieldIdx
            /\ UNCHANGED <<success, trace, result>>
    /\ UNCHANGED <<prog, browser, exitStatus, popup_visible, qOthers>>

\* lines 570-581: return True after the redirect wait, else return False;
\* a KeyboardInterrupt may arrive during the wait of line 573
QResult ==
    /\ prog = "quantum" /\ pc = "q_result"
    /\ \/ /\ pc' = "q_finally"
          /\ result' = IF success THEN "True" ELSE "False"
       \/ /\ success
          /\ QRaise("interrupt")
    /\ UNCHANGED <<prog, browser, fieldIdx, exitStatus, trace, quantVars, qOthers>>

\* lines 594-599: finally; a failing close() is swallowed by the bare except
QFinally ==
    /\ prog = "quantum" /\ pc = "q_finally"
    /\ IF QFinallyCloses(browser)
       THEN \E closed \in BOOLEAN :
              /\ trace' = IF closed THEN Ev("close") ELSE trace \o <<"close", "close_failed">>
              /\ browser' = IF closed THEN "closed" ELSE "open"
       ELSE UNCHANGED <<browser, trace>>
    /\ pc' = "q_main_ret"
    /\ UNCHANGED <<prog, fieldIdx, result, exitStatus, quantVars, qOthers>>

\* lines 622-629: sys.exit(0) or sys.exit(1); an uncaught KeyboardInterrupt
\* ends the interpreter with the status of an interrupted process
QMainRet ==
    /\ prog = "quantum" /\ pc = "q_main_ret"
    /\ pc' = "exited"
    /\ exitStatus' = IF result = "KeyboardInterrupt" THEN 130 ELSE QuantumExitStatus(result)
    /\ UNCHANGED <<prog, browser, fieldIdx, result, trace, quantVars, qOthers>>

QuantumNext ==
    \/ QMainParse \/ QLaunch \/ QOpen \/ QForm \/ QResult \/ QFinally \/ QMainRet

\* ---------------------------------------------------------------------------
\* injector.py: main (Selenium driven through a Dolphin Anty profile)
\* ---------------------------------------------------------------------------

\* Most leads in sample_leads.json in the model.
MaxLeads == 2

selOthers == <<argvKind, dataProxy, testLead, proxy_config, browser, attempt, fieldIdx,
               exitStatus, manVars, agentVars, quantVars, findVars>>

\* main is left by an exception that no handler of main takes.
SelLeave(k) ==
    /\ pc' = "sel_done"
    /\ result' = IF k = "interrupt" THEN "KeyboardInterrupt" ELSE "Exception"

\* line 280: 'if driver:'
FinallyQuits(d) == d # "None"

\* line 285: 'if remote_url:'
FinallyClosesProfile(u) == u # "None"

\* lines 236-242: the managers, then the clean-up close_profile (which keeps
\* a failed request to itself) and the pause
SelInit ==
    /\ prog = "selenium" /\ pc = "sel_init"
    /\ \/ /\ trace' = Ev("cleanup_close_profile")
          /\ pc' = "sel_next"
          /\ UNCHANGED result
       \/ /\ \E k \in {"other", "interrupt"} : SelLeave(k)
          /\ UNCHANGED trace
    /\ UNCHANGED <<prog, exc, selVars, selOthers>>

\* lines 244-253: get_next_lead, the loop exit, the banner (which reads
\* lead['firstName'] and lead['lastName']) and the two locals
SelNextLead ==
    /\ prog = "selenium" /\ pc = "sel_next"
    /\ IF current_lead_index >= num_leads
       THEN /\ pc' = "sel_done"
            /\ result' = "returned"
            /\ UNCHANGED <<current_lead_index, driver, remote_url, trace>>
       ELSE /\ current_lead_index' = current_lead_index + 1
            /\ \/ /\ pc' = "sel_start"
                  /\ driver' = "None"
                  /\ remote_url' = "None"
                  /\ trace' = Ev("lead")
                  /\ UNCHANGED result
               \/ /\ SelLeave("other")
                  /\ trace' = Ev("lead")
                  /\ UNCHANGED <<driver, remote_url>>
    /\ UNCHANGED <<prog, exc, num_leads, selOthers>>

\* lines 256-259 and DolphinManager.start_profile (86-110): the profile is
\* started and the URL returned; or None is returned and the loop continues
\* through 'finally'; or start_profile raises something other than a
\* RequestException
SelStartProfile ==
    /\ prog = "selenium" /\ pc = "sel_start"
    /\ \/ /\ trace' = trace \o <<"start_profile", "start_ok">>
          /\ remote_url' = "url"
          /\ pc' = "sel_remote"
          /\ UNCHANGED exc
       \/ /\ trace' = trace \o <<"start_profile", "start_failed">>
          /\ pc' = "sel_finally"
          /\ UNCHANGED <<remote_url, exc>>
       \/ /\ trace' = trace \o <<"start_profile", "start_raised">>
          /\ pc' = "sel_except"
          /\ UNCHANGED <<remote_url, exc>>
       \/ /\ trace' = trace \o <<"start_profile", "start_raised">>
          /\ pc' = "sel_finally"
          /\ exc' = "interrupt"
          /\ UNCHANGED remote_url
    /\ UNCHANGED <<prog, result, num_leads, current_lead_index, driver, selOthers>>

\* lines 262-265: webdriver.Remote and driver.maximize_window
SelRemote ==
    /\ prog = "selenium" /\ pc = "sel_remote"
    /\ \/ /\ trace' = Ev("remote")
          /\ driver' = "driver"
          /\ \/ pc' = "sel_fill" /\ UNCHANGED exc
             \/ pc' = "sel_except" /\ UNCHANGED exc
             \/ pc' = "sel_finally" /\ exc' = "interrupt"
       \/ /\ trace' = Ev("remote_failed")
          /\ UNCHANGED driver
          /\ \/ pc' = "sel_except" /\ UNCHANGED exc
             \/ pc' = "sel_finally" /\ exc' = "interrupt"
    /\ UNCHANGED <<prog, result, num_leads, current_lead_index, remote_url, selOthers>>

\* lines 268-273: fill_and_submit_form (which returns a pair on success and
\* on the failures it catches, and raises when its own error screenshot
\* fails) and update_lead_status
SelFill ==
    /\ prog = "selenium" /\ pc = "sel_fill"
    /\ \/ /\ \E ok \in BOOLEAN : trace' = Ev(IF ok THEN "lead_success" ELSE "lead_failed")
          /\ pc' = "sel_finally"
          /\ UNCHANGED exc
       \/ /\ pc' = "sel_except"
          /\ UNCHANGED <<trace, exc>>
       \/ /\ pc' = "sel_finally"
          /\ exc' = "interrupt"
          /\ UNCHANGED trace
    /\ UNCHANGED <<prog, result, selVars, selOthers>>

\* lines 275-277: 'except Exception'
SelExcept ==
    /\ prog = "selenium" /\ pc = "sel_except"
    /\ trace' = Ev("lead_failed")
    /\ pc' = "sel_finally"
    /\ UNCHANGED <<prog, exc, result, selVars, selOthers>>

\* lines 278-289: 'finally'.  driver.quit() is not guarded: when it raises,
\* the rest of the block is skipped and the exception leaves main.
\* close_profile (112-120) keeps a failed stop request to itself.
SelFinally ==
    /\ prog = "selenium" /\ pc = "sel_finally"
    /\ \E quitOk \in BOOLEAN :
         LET quitEv == IF FinallyQuits(driver)
                       THEN (IF quitOk THEN <<"quit">> ELSE <<"quit", "quit_raised">>)
                       ELSE <<>>
             closeEv == IF FinallyClosesProfile(remote_url) THEN <<"close_profile">> ELSE <<>>
         IN  IF FinallyQuits(driver) /\ ~quitOk
             THEN /\ trace' = trace \o quitEv
                  /\ SelLeave("other")
                  /\ exc' = ""
             ELSE /\ trace' = trace \o quitEv \o closeEv
                  /\ exc' = ""
                  /\ IF exc = "interrupt"
                     THEN SelLeave("interrupt")
                     ELSE pc' = "sel_next" /\ UNCHANGED result
    /\ UNCHANGED <<prog, selVars, selOthers>>

SeleniumNext ==
    \/ SelInit \/ SelNextLead \/ SelStartProfile \/ SelRemote \/ SelFill
    \/ SelExcept \/ SelFinally

\* Values of the variables a script does not use.
Idle ==
    [argvKind |-> "ok", dataProxy |-> "none", testLead |-> FALSE]

InjectInit ==
    /\ prog = "inject"
    /\ pc = "main_start"
    /\ argvKind \in {"none", "badjson", "nondict", "ok"}
    /\ dataProxy \in {"none", "complete", "incomplete"}
    /\ testLead \in BOOLEAN
    /\ proxy_config = "none"
    /\ jar = EmptyJar
    /\ session_data = [kind |-> "none"]

\* ManualLeadInjector.__init__ (lines 26-28): proxy_config as given
ManualInit ==
    /\ prog = "manual"
    /\ pc = "man_start"
    /\ argvKind = Idle.argvKind /\ dataProxy = Idle.dataProxy /\ testLead = Idle.testLead
    /\ proxy_config \in {"none", "complete"}
    /\ lead_data \in LeadIds
    /\ jar = EmptyJar
    /\ session_data = [kind |-> "none"]

\* AgentSessionBrowser.__init__ (lines 29-33).  The session data of a valid
\* invocation carries a record captured by _capture_and_store_session from
\* some browser state, and the stored domain.
AgentInit ==
    /\ prog = "agent"
    /\ pc = "ag_main"
    /\ argvKind \in {"usage", "badjson", "scalar", "no_leadId", "no_sessionId", "nondict", "ok"}
    /\ dataProxy = Idle.dataProxy /\ testLead = Idle.testLead
    /\ proxy_config = "none"
    /\ IF argvKind = "ok"
       THEN /\ jar \in Jars
            /\ \E lsOk, ssOk \in BOOLEAN, d \in SampleDomains :
                 /\ ~lsOk => jar.localStorage # {}
                 /\ ~ssOk => jar.sessionStorage # {}
                 /\ session_data = [kind |-> "session", domain |-> d] @@ CaptureSession(jar, lsOk, ssOk)
       ELSE /\ jar = EmptyJar
            /\ session_data = [kind |-> "none"]

\* LeadManager.__init__ (lines 28-41): the leads of sample_leads.json, none
\* when the file cannot be read
SeleniumInit ==
    /\ prog = "selenium"
    /\ pc = "sel_init"
    /\ argvKind = Idle.argvKind /\ dataProxy = Idle.dataProxy /\ testLead = Idle.testLead
    /\ proxy_config = "none"
    /\ jar = EmptyJar
    /\ session_data = [kind |-> "none"]
    /\ num_leads \in 0..MaxLeads

QuantumInit ==
    /\ prog = "quantum"
    /\ pc = "q_main"
    /\ argvKind \in {"count", "badjson", "nondict", "ok"}
    /\ dataProxy = Idle.dataProxy /\ testLead = Idle.testLead
    /\ proxy_config = "none"
    /\ jar = EmptyJar
    /\ session_data = [kind |-> "none"]

Init ==
    /\ \/ InjectInit
       \/ ManualInit
       \/ AgentInit
       \/ QuantumInit
       \/ SeleniumInit
    /\ prog # "selenium" => num_leads = 0
    /\ current_lead_index = 0
    /\ driver = "None"
    /\ remote_url = "None"
    /\ browser = "none"
    /\ attempt = 0
    /\ fieldIdx = 0
    /\ exc = ""
    /\ result = "none"
    /\ exitStatus = -1
    /\ trace = <<>>
    /\ form_submitted = FALSE
    /\ polls = 0
    /\ last_url = "none"
    /\ prog # "manual" => lead_data = NoLeadIds
    /\ send_call = NoCall
    /\ ctx_cookies = <<>>
    /\ page_store = [localStorage |-> {}, sessionStorage |-> {}, status |-> <<>>]
    /\ navigation_success = FALSE
    /\ gotos = <<>>
    /\ popup_visible = FALSE
    /\ success = FALSE
    /\ sel_log = <<>>
    /\ all_inputs = NoInputs
    /\ element = NoElement

Next == InjectNext \/ ManualNext \/ AgentNext \/ QuantumNext \/ SeleniumNext

Spec == Init /\ [][Next]_vars

\* ---------------------------------------------------------------------------
\* Properties
\* ---------------------------------------------------------------------------

\* The operation (inject_lead, open_manual_injection_browser, run) has
\* finished: its 'finally' block has run.
InjectLeadFinished == prog = "inject" /\ pc = "main_ret"
ManualFinished == prog = "manual" /\ pc = "man_done"
AgentRunFinished == prog = "agent" /\ pc = "ag_main_ret"

\* Positions of event e in sequence s.
Positions(s, e) == {i \in DOMAIN s : s[i] = e}

\* C1: in LeadInjector.inject_lead, open_manual_injection_browser and
\* AgentSessionBrowser.run, every exit on which the browser was launched has
\* called browser.close() by the time the operation finishes, and the step
\* that closes (whether or not close() fails) leaves the result as it was.
C1_CloseOnEveryExit ==
    [][ /\ (InjectLeadFinished' \/ ManualFinished' \/ AgentRunFinished')
            => (Has(trace', "launch") => Has(trace', "close"))
        /\ pc \in {"inj_finally", "man_finally", "run_finally"}
            => /\ result' = result
               /\ pc' \in {"main_ret", "man_done", "ag_main_ret"} ]_vars

\* C1 witness: inject_lead left through the outer exception handler with the
\* browser launched, and close() itself failed.
C1_Witness ==
    /\ InjectLeadFinished
    /\ result = "False"
    /\ Has(trace, "launch")
    /\ Has(trace, "close_failed")
    /\ ~Has(trace, "goto")

\* C2: the exit status of injector_playwright.py is 0 only when the lead
\* injection succeeded; it is non-zero for a missing argument, invalid JSON,
\* an exception caught by main, and inject_lead returning False.
C2_ExitStatusReflectsOutcome ==
    (prog = "inject" /\ pc = "exited")
        => /\ exitStatus = 0 => result = "True"
           /\ argvKind \in {"none", "badjson", "nondict"} => exitStatus # 0
           /\ result = "False" => exitStatus # 0

\* C3 as stated: navigation is abandoned (inject_lead returns False with no
\* successful page.goto) only after the third failed attempt.
C3_AbandonedOnlyAfterThirdFailure ==
    (InjectLeadFinished /\ result = "False"
        /\ Has(trace, "goto_failed") /\ ~Has(trace, "goto_ok"))
        => Count(trace, "goto_failed") = MAX_RETRIES

\* C3 amended: at most 3 page.goto attempts are made.  A failed attempt whose
\* error message mentions "proxy" or "timeout" prints PROXY_EXPIRED and ends
\* the navigation at once; any other failed attempt before the third is
\* followed by the 2-second pause and then by the next attempt (preceded,
\* when a proxy is configured, by the health check, whose failure ends the
\* navigation); the third failed attempt ends the navigation.  When
\* navigation was abandoned, inject_lead returns False.
C3_RetryLoop ==
    prog = "inject" =>
        /\ Count(trace, "goto") <= MAX_RETRIES
        /\ \A i \in Positions(trace, "goto_failed") :
             LET n == Cardinality({j \in Positions(trace, "goto_failed") : j <= i})
                 later == {j \in Positions(trace, "goto") : j > i}
             IN  IF i < Len(trace) /\ trace[i + 1] = "PROXY_EXPIRED"
                 THEN later = {} /\ pc \in {"inj_finally", "main_ret", "exited"}
                 ELSE IF n < MAX_RETRIES
                 THEN /\ i < Len(trace) /\ trace[i + 1] = "sleep_2"
                      /\ \/ pc \in {"inj_nav_check", "inj_goto"} /\ i + 1 = Len(trace)
                         \/ /\ i + 2 <= Len(trace)
                            /\ trace[i + 2] \in {"goto", "health_ok", "health_failed"}
                            /\ trace[i + 2] = "health_ok" =>
                                 (pc = "inj_goto" /\ i + 2 = Len(trace))
                                 \/ (i + 3 <= Len(trace) /\ trace[i + 3] = "goto")
                            /\ trace[i + 2] = "health_failed" => later = {}
                 ELSE later = {} /\ pc \in {"inj_finally", "main_ret", "exited"}
        /\ (pc \in {"inj_finally", "main_ret", "exited"}
              /\ Has(trace, "goto_failed") /\ ~Has(trace, "goto_ok")
              /\ ~Has(trace, "goto_interrupted"))
             => result = "False"

\* C3 witness: two failed attempts, each followed by the pause, then a third
\* failed attempt after which inject_lead returned False.
C3_Witness ==
    /\ InjectLeadFinished
    /\ result = "False"
    /\ Count(trace, "goto_failed") = MAX_RETRIES
    /\ Count(trace, "sleep_2") = MAX_RETRIES - 1
    /\ ~Has(trace, "PROXY_EXPIRED")

\* C4: a run of inject_lead that returns True has printed FINAL_DOMAIN
\* exactly once, and a run that returns False has never printed it.
C4_FinalDomainSentinel ==
    InjectLeadFinished
        => /\ result = "True" => Count(trace, "FINAL_DOMAIN") = 1
           /\ result = "False" => Count(trace, "FINAL_DOMAIN") = 0

\* C4 witness: a run that returned True after the form was submitted.
C4_Witness ==
    /\ InjectLeadFinished
    /\ result = "True"
    /\ Has(trace, "thank_you")
    /\ Has(trace, "FINAL_DOMAIN")

\* C5: PROXY_EXPIRED is printed at most once per run of inject_lead and only
\* on runs that return False, never together with FINAL_DOMAIN, and no
\* page.goto to the target URL follows it.
C5_ProxyExpiredSentinel ==
    prog = "inject" =>
        /\ Count(trace, "PROXY_EXPIRED") <= 1
        /\ ~(Has(trace, "PROXY_EXPIRED") /\ Has(trace, "FINAL_DOMAIN"))
        /\ (InjectLeadFinished /\ Has(trace, "PROXY_EXPIRED")) => result = "False"
        /\ \A i \in Positions(trace, "PROXY_EXPIRED") :
             \A j \in Positions(trace, "goto") : j < i

\* C5 witness: a navigation attempt failed with a proxy/timeout error, the
\* sentinel was printed and inject_lead returned False.
C5_Witness ==
    /\ InjectLeadFinished
    /\ result = "False"
    /\ Has(trace, "goto_failed")
    /\ Count(trace, "PROXY_EXPIRED") = 1

\* C6: open_manual_injection_browser on an injector constructed with
\* proxy_config=None launches the browser, runs the auto-fill and returns a
\* boolean to its caller.
C6_NoProxyReturnsBoolean ==
    (ManualFinished /\ proxy_config = "none")
        => /\ result \in {"True", "False"}
           /\ result = "True" => (Has(trace, "launch") /\ Has(trace, "autofill_ok"))

\* C7: without a stored domain (key absent or empty) every navigation of the
\* agent browser goes to https://www.google.com; with a stored domain the
\* first navigation goes to the domain itself when it starts with http:// or
\* https://, and to "https://" followed by the domain otherwise.
C7_NavigationTarget ==
    (prog = "agent" /\ argvKind = "ok" /\ gotos # <<>>) =>
        LET d == session_data.domain
            hasScheme == \/ (Len(d.text) >= 7 /\ SubSeq(d.text, 1, 7) = HTTP)
                         \/ (Len(d.text) >= 8 /\ SubSeq(d.text, 1, 8) = HTTPS)
        IN  IF ~d.present \/ Len(d.text) = 0
            THEN \A i \in DOMAIN gotos : gotos[i] = GOOGLE
            ELSE /\ hasScheme => gotos[1] = d.text
                 /\ ~hasScheme =>
                      /\ Len(gotos[1]) = 8 + Len(d.text)
                      /\ SubSeq(gotos[1], 1, 8) = HTTPS
                      /\ SubSeq(gotos[1], 9, Len(gotos[1])) = d.text

\* C7 witness: a stored domain that is one slash short of a scheme was
\* navigated to, with https:// put in front.
C7_Witness ==
    /\ prog = "agent" /\ argvKind = "ok"
    /\ session_data.domain.present
    /\ session_data.domain.text = <<"h", "t", "t", "p", ":", "/">> \o ACO
    /\ Len(gotos) >= 1
    /\ gotos[1] = HTTPS \o <<"h", "t", "t", "p", ":", "/">> \o ACO

\* C8: for a command line that carries a session argument,
\* agent_session_browser.main exits with 1 and launches no browser when the
\* argument is not valid JSON or lacks leadId or sessionId; otherwise it
\* exits with 0 when run returned True or a keyboard interrupt ended it, and
\* with 1 in every other case.
C8_AgentExitStatus ==
    (prog = "agent" /\ pc = "exited" /\ argvKind # "usage") =>
        IF argvKind \in {"badjson", "scalar", "no_leadId", "no_sessionId"}
        THEN exitStatus = 1 /\ browser = "none" /\ ~Has(trace, "launch") /\ result = "none"
        ELSE /\ exitStatus \in {0, 1}
             /\ result = "True" => exitStatus = 0
             /\ result = "KeyboardInterrupt" => exitStatus = 0
             /\ result \notin {"True", "KeyboardInterrupt"} => exitStatus = 1

\* C8 witness: run launched the browser, failed, and main exited with 1.
C8_Witness ==
    /\ prog = "agent" /\ pc = "exited"
    /\ argvKind = "ok"
    /\ Has(trace, "launch")
    /\ result = "False"
    /\ exitStatus = 1

\* C9: quantumai_injector_playwright.main exits with 0 iff inject_lead
\* returned True, and with 1 for a wrong argument count, invalid JSON, any
\* other caught exception, and inject_lead returning False.
C9_QuantumExitStatus ==
    (prog = "quantum" /\ pc = "exited") =>
        /\ exitStatus = 0 <=> result = "True"
        /\ argvKind \in {"count", "badjson", "nondict"} => exitStatus = 1
        /\ result = "False" => exitStatus = 1

\* C9 witness: every form failed, inject_lead returned False, status 1.
C9_Witness ==
    /\ prog = "quantum" /\ pc = "exited"
    /\ Has(trace, "fill_myform3")
    /\ result = "False"
    /\ exitStatus = 1

CookieKeys == {"name", "value", "domain", "path", "httpOnly", "secure", "sameSite"}

AutoFillEvents == {"autofill_ok", "autofill_failed"}
CaptureEvents == {"capture_flag_true", "capture_flag_false"}

NoneOf(s, E) == \A i \in DOMAIN s : s[i] \notin E

\* C11 as stated: open_manual_injection_browser returns False without
\* auto-filling the form or capturing a session if and only if all 3
\* page.goto attempts failed.
C11_FalseIffAllAttemptsFailed ==
    ManualFinished
        => ((result = "False" /\ NoneOf(trace, AutoFillEvents \cup CaptureEvents))
              <=> Count(trace, "goto_failed") = ManualMaxRetries)

\* C11 amended: page.goto is called at most 3 times and never after a
\* successful attempt; the 2-second pause directly follows the first and the
\* second failed attempt and nothing else, and is followed by the next attempt
\* unless a KeyboardInterrupt ends it; when all 3 attempts failed the method
\* returns False with no auto-fill and no session capture; and a return of
\* False after failed attempts and no successful one means all 3 failed.
C11_ManualRetryLoop ==
    prog = "manual" =>
        /\ Count(trace, "goto") <= ManualMaxRetries
        /\ \A i \in Positions(trace, "goto_ok") :
             \A j \in Positions(trace, "goto") : j < i
        /\ \A i \in Positions(trace, SleepEv(ManualRetryDelay)) :
             /\ i > 1 /\ trace[i - 1] = "goto_failed"
             /\ Cardinality({j \in Positions(trace, "goto") : j < i}) < ManualMaxRetries
             /\ \/ i = Len(trace) /\ pc = "man_goto"
                \/ i < Len(trace) /\ trace[i + 1] \in {"goto", "sleep_interrupted"}
        /\ \A i \in Positions(trace, "goto_failed") :
             Cardinality({j \in Positions(trace, "goto_failed") : j <= i}) < ManualMaxRetries
                => (i < Len(trace) /\ trace[i + 1] = SleepEv(ManualRetryDelay))
        /\ Count(trace, "goto_failed") = ManualMaxRetries
             => /\ pc \in {"man_finally", "man_done"}
                /\ result = "False"
                /\ NoneOf(trace, AutoFillEvents \cup CaptureEvents)
        /\ (ManualFinished /\ result = "False"
               /\ Has(trace, "goto") /\ ~Has(trace, "goto_ok"))
             => Count(trace, "goto_failed") = ManualMaxRetries

\* C11 witness: three failed attempts with a pause after the first two only,
\* and the method returned False.
C11_Witness ==
    /\ ManualFinished
    /\ result = "False"
    /\ Count(trace, "goto_failed") = ManualMaxRetries
    /\ Count(trace, SleepEv(ManualRetryDelay)) = ManualMaxRetries - 1
    /\ trace[Len(trace)] \in {"close", "close_failed"}

\* find_form_field has returned to inject_lead.
FindFormFieldReturned == prog = "inject" /\ pc = "inj_type"

\* C12: find_form_field tries the selectors in list order; when it returns,
\* an element found by a selector is that of the earliest selector that
\* matched a visible element, and every selector before it was tried and
\* matched none; the scan over all inputs ran only after all nine selectors
\* matched no visible element; and None is returned only when the scan ran
\* and accepted no input (or could not list the inputs).
C12_FindFormField ==
    prog = "inject" =>
        /\ Len(sel_log) <= Len(Selectors)
        /\ \A j \in DOMAIN sel_log : sel_log[j].selector = Selectors[j]
        /\ \A j \in DOMAIN sel_log : sel_log[j].visible => j = Len(sel_log)
        /\ all_inputs.status # "unset"
             => /\ Len(sel_log) = Len(Selectors)
                /\ \A j \in DOMAIN sel_log : ~sel_log[j].visible
        /\ FindFormFieldReturned =>
             /\ element.kind = "selector"
                  <=> (sel_log # <<>> /\ sel_log[Len(sel_log)].visible)
             /\ element.kind = "selector"
                  => element.idx = Len(sel_log) /\ all_inputs.status = "unset"
             /\ element.kind # "selector" => all_inputs.status # "unset"
             /\ element.kind = "input"
                  => /\ element.idx \in DOMAIN all_inputs.elems
                     /\ InputAccepted(all_inputs.elems, element.idx, Fields[fieldIdx])
                     /\ \A i \in 1..(element.idx - 1) :
                          ~InputAccepted(all_inputs.elems, i, Fields[fieldIdx])
             /\ element = NoElement
                  => \A i \in DOMAIN all_inputs.elems :
                       ~InputAccepted(all_inputs.elems, i, Fields[fieldIdx])

\* C12 witness: the first two selectors matched no visible element and the
\* third selector's element was returned.
C12_Witness ==
    /\ FindFormFieldReturned
    /\ element = [kind |-> "selector", idx |-> 3]
    /\ Len(sel_log) = 3
    /\ ~sel_log[1].visible /\ ~sel_log[2].visible /\ sel_log[3].visible

\* C12 witness of the fallback: no selector matched and the scan returned
\* the second input.
C12_FallbackWitness ==
    /\ FindFormFieldReturned
    /\ element = [kind |-> "input", idx |-> 2]
    /\ Len(sel_log) = Len(Selectors)

\* The form events of a run of inject_lead, in the order they happened.
FormEvents ==
    {"type_firstName", "type_lastName", "type_email", "type_phone",
     "click_submit", "thank_you", "no_thank_you", "missing_submit",
     "missing_firstName", "missing_lastName", "missing_email", "missing_phone"}

FormTrace == SelectSeq(trace, LAMBDA e : e \in FormEvents)

\* C13: a run of inject_lead that returns True has found and typed into
\* firstName, lastName, email and phone, then clicked the submit button, then
\* found the 'Thank You!' marker, in this order and each once; a run on which
\* a field or the submit button was not found, or the marker did not appear,
\* returns False.
C13_TrueOnlyAfterFullSubmission ==
    InjectLeadFinished =>
        /\ result = "True"
             => FormTrace = << "type_firstName", "type_lastName", "type_email",
                               "type_phone", "click_submit", "thank_you" >>
        /\ (\E f \in DOMAIN Fields : Has(trace, "missing_" \o Fields[f]))
             => result = "False"
        /\ Has(trace, "missing_submit") => result = "False"
        /\ Has(trace, "no_thank_you") => result = "False"

\* C13 witness: all four fields were typed into and the submit button was
\* clicked, the marker did not appear, and inject_lead returned False.
C13_Witness ==
    /\ InjectLeadFinished
    /\ result = "False"
    /\ FormTrace = << "type_firstName", "type_lastName", "type_email",
                      "type_phone", "click_submit", "no_thank_you" >>

\* C13 witness of success: the complete sequence, and True was returned.
C13_SuccessWitness ==
    /\ InjectLeadFinished
    /\ result = "True"
    /\ Has(trace, "thank_you")
    /\ Has(trace, "type_phone")

\* The processing of no lead is under way: main is between two leads or has
\* ended.
BetweenLeads == prog = "selenium" /\ pc \in {"sel_next", "sel_start", "sel_done"}

\* C14: at most one WebDriver session and at most one started profile exist
\* at any time, and once the processing of a lead is over (the next lead is
\* taken or main has ended) quit() was called on every WebDriver created and
\* close_profile was called for every profile started.
C14_OneSessionOneProfile ==
    prog = "selenium" =>
        /\ Count(trace, "remote") - Count(trace, "quit") \in {0, 1}
        /\ Count(trace, "start_ok") - Count(trace, "close_profile") \in {0, 1}
        /\ BetweenLeads
             => /\ Count(trace, "remote") = Count(trace, "quit")
                /\ Count(trace, "start_ok") = Count(trace, "close_profile")

\* C14, the part that holds: when start_profile is called for a lead, every
\* WebDriver created before was quit and every profile started before was
\* closed.
C14_CleanBeforeNextStart ==
    (prog = "selenium" /\ pc = "sel_start")
        => /\ Count(trace, "remote") = Count(trace, "quit")
           /\ Count(trace, "start_ok") = Count(trace, "close_profile")

\* The steps of AgentSessionBrowser.run, as the run logged them.
StepEvents ==
    {"setup_ok", "setup_failed", "navigate", "restore_storage", "setup_page_info",
     "auto_fill_ftd_form", "keep_browser_open"}

StepTrace == SelectSeq(trace, LAMBDA e : e \in StepEvents)

IsPrefix(s, t) == Len(s) <= Len(t) /\ SubSeq(t, 1, Len(s)) = s

\* The two orders run can take its steps in: with and without the second
\* navigate_to_domain.
RunOrder ==
    << "setup_ok", "navigate", "restore_storage", "setup_page_info",
       "auto_fill_ftd_form", "keep_browser_open" >>
RunOrderWithRetry ==
    << "setup_ok", "navigate", "restore_storage", "navigate", "setup_page_info",
       "auto_fill_ftd_form", "keep_browser_open" >>

\* C15: the steps of run happen in the order setup_browser,
\* navigate_to_domain, restore_session_storage, setup_page_info,
\* auto_fill_ftd_form, keep_browser_open (a second navigate_to_domain may
\* follow the restore); restore_session_storage runs only after the first
\* navigate_to_domain has returned; and when setup_browser returns False, run
\* returns False and no later step runs.
C15_RunStepOrder ==
    prog = "agent" =>
        /\ \/ IsPrefix(StepTrace, RunOrder)
           \/ IsPrefix(StepTrace, RunOrderWithRetry)
           \/ StepTrace = <<"setup_failed">>
        /\ \A i \in Positions(trace, "restore_storage") :
             \E j \in Positions(trace, "navigate") :
                /\ j < i
                /\ trace[j + 1] \in {"goto_ok", "goto_failed"}
        /\ Has(trace, "setup_failed")
             => /\ pc \in {"run_finally", "ag_main_ret", "exited"}
                /\ result = "False"
                /\ gotos = <<>>

\* C15 witness: a run that went through every step, the second
\* navigate_to_domain included, and returned True.
C15_Witness ==
    /\ AgentRunFinished
    /\ result = "True"
    /\ StepTrace = RunOrderWithRetry

\* C15 witness of the early return: setup_browser returned False.
C15_SetupFailedWitness ==
    /\ AgentRunFinished
    /\ result = "False"
    /\ StepTrace = <<"setup_failed">>
    /\ Has(trace, "launch")

\* C16: when the session data has a domain and the first page.goto to it
\* failed, a further navigate_to_domain follows restore_session_storage.
C16_RetryAfterRestore ==
    (prog = "agent" /\ pc = "nav3" /\ HasDomain(session_data)
        /\ GotoOutcomes[1] = "goto_failed")
        => \E i \in Positions(trace, "restore_storage") :
             \E j \in Positions(trace, "navigate") : j > i

\* C16, the part that holds: the second navigate_to_domain is made when the
\* session data has a domain and the first call returned False, that is when
\* the goto to the domain and the fallback goto to Google both failed.
C16_RetryWhenBothFailed ==
    (prog = "agent" /\ pc = "nav3" /\ HasDomain(session_data)
        /\ Len(GotoOutcomes) >= 2
        /\ GotoOutcomes[1] = "goto_failed" /\ GotoOutcomes[2] = "goto_failed")
        => \E i \in Positions(trace, "restore_storage") :
             \E j \in Positions(trace, "navigate") : j > i

\* C17: once setup_browser returned True, a run that no KeyboardInterrupt
\* cut short went through setup_page_info, auto_fill_ftd_form and
\* keep_browser_open and returned True, whatever the navigations did; run
\* never returns False after setup_browser returned True; and page.goto is
\* called at most 5 times.
C17_NavigationFailureNotFatal ==
    prog = "agent" =>
        /\ Len(gotos) <= 5
        /\ Has(trace, "setup_ok") => result # "False"
        /\ (AgentRunFinished /\ Has(trace, "setup_ok") /\ result # "KeyboardInterrupt")
             => /\ result = "True"
                /\ Has(trace, "setup_page_info")
                /\ Has(trace, "auto_fill_ftd_form")
                /\ Has(trace, "keep_browser_open")

\* C17 witness: five page.goto calls, every one failed, and run returned
\* True after keep_browser_open.
C17_Witness ==
    /\ AgentRunFinished
    /\ result = "True"
    /\ Len(gotos) = 5
    /\ ~Has(trace, "goto_ok")
    /\ Has(trace, "keep_browser_open")

\* restore_session_storage has just returned.
StorageRestored == prog = "agent" /\ pc = "nav2"

\* C18: restore_session_storage writes stored entries only when the page
\* loaded is that of the stored domain; on the Google page and on the blank
\* page nothing is written.
C18_RestoreOnlyIntoStoredDomain ==
    (StorageRestored /\ page_store.localStorage \cup page_store.sessionStorage # {})
        => (HasDomain(session_data) /\ LoadedPage = NavTarget(session_data))

\* The wait loop of the manual injector ended: page.url raised, or a
\* KeyboardInterrupt reached the handler of line 361.
WaitLoopEnded ==
    Has(trace, "browser_closed") \/ Has(trace, "url_raised") \/ Has(trace, "interrupted")

\* C19: in a session that ended by the operator closing the browser,
\* _capture_and_store_session was invoked exactly once, before the browser
\* was closed, and read the session from the open page.
C19_CapturedBeforeClosed ==
    (ManualFinished /\ Has(trace, "browser_closed"))
        => /\ Count(SelectSeq(trace, LAMBDA e : e \in CaptureEvents), "capture_flag_true")
                + Count(SelectSeq(trace, LAMBDA e : e \in CaptureEvents), "capture_flag_false") = 1
           /\ Has(trace, "session_read")
           /\ \A i \in Positions(trace, "session_read") :
                \A j \in Positions(trace, "browser_closed") : i < j

\* C19, what holds: when the operator closed the browser, every call of
\* _capture_and_store_session comes after the closing was noticed and reads
\* nothing; there is one call, and a second one only when a
\* KeyboardInterrupt cut the first short.
C19_CaptureAfterClosed ==
    (ManualFinished /\ Has(trace, "browser_closed"))
        => /\ ~Has(trace, "session_read")
           /\ ~Has(trace, "session_stored")
           /\ \A j \in Positions(trace, "browser_closed") :
                \E i \in DOMAIN trace : i > j /\ trace[i] \in CaptureEvents
           /\ Len(SelectSeq(trace, LAMBDA e : e \in CaptureEvents))
                = IF Has(trace, "interrupted") THEN 2 ELSE 1

\* C20: a manual session whose navigation succeeded and whose wait loop
\* ended returns True, whatever auto-fill, the detection of a submission
\* and the capture of the session did.
C20_TrueAfterWaitLoop ==
    (ManualFinished /\ Has(trace, "goto_ok") /\ WaitLoopEnded) => result = "True"

\* C20 witness: auto-fill failed, no submission was detected, the session
\* was not stored, and the method returned True.
C20_Witness ==
    /\ ManualFinished
    /\ Has(trace, "goto_ok")
    /\ Has(trace, "autofill_failed")
    /\ ~form_submitted
    /\ Has(trace, "browser_closed")
    /\ Has(trace, "session_not_stored")
    /\ ~Has(trace, "session_stored")
    /\ result = "True"

\* C20 witness: the wait loop was ended by a KeyboardInterrupt.
C20_InterruptWitness ==
    /\ ManualFinished
    /\ Has(trace, "interrupted")
    /\ ~Has(trace, "browser_closed")
    /\ result = "True"

\* The URLs read from page.url by the manual injector, in order.
UrlReads == SelectSeq(trace, LAMBDA e : e \in {UrlEv(u) : u \in PageUrls})

\* Some poll read a URL different from the one read before it.
UrlChangeObserved ==
    \E i \in DOMAIN UrlReads : i > 1 /\ UrlReads[i] # UrlReads[i - 1]

\* The positions at which the wait loop was left because page.url raised.
LoopLeft == Positions(trace, "browser_closed") \cup Positions(trace, "url_raised")

\* C21: form_submitted is a latch: at every moment it is true exactly when
\* some poll so far read a URL different from the one polled before it; the
\* 'form submitted' screenshot is taken at most once (at the first such
\* poll); and the flag passed to _capture_and_store_session by the call that
\* follows the end of the loop is True iff a URL change was observed.
C21_FormSubmittedLatch ==
    prog = "manual" =>
        /\ form_submitted = UrlChangeObserved
        /\ Count(trace, "screenshot_form_submitted") <= 1
        /\ Has(trace, "screenshot_form_submitted") = UrlChangeObserved
        /\ \A i \in Positions(trace, "screenshot_form_submitted") :
             /\ trace[i - 1] \in {UrlEv(u) : u \in PageUrls}
             /\ ~\E k \in 2..(i - 2) :
                    /\ trace[k] \in {UrlEv(u) : u \in PageUrls}
                    /\ trace[k - 1] \in {UrlEv(u) : u \in PageUrls}
                    /\ trace[k] # trace[k - 1]
        /\ \A j \in LoopLeft :
             j < Len(trace) =>
                trace[j + 1] = (IF UrlChangeObserved THEN "capture_flag_true"
                                                     ELSE "capture_flag_false")

\* C21 witness: the URL changed, then changed back; one screenshot was
\* taken, and after the browser was closed the capture got the flag True.
C21_Witness ==
    /\ ManualFinished
    /\ Len(UrlReads) = 3
    /\ UrlReads[1] # UrlReads[2]
    /\ UrlReads[2] # UrlReads[3]
    /\ Count(trace, "screenshot_form_submitted") = 1
    /\ Has(trace, "browser_closed")
    /\ Has(trace, "capture_flag_true")

\* C21 witness: no URL change was seen and the capture got the flag False.
C21_NoChangeWitness ==
    /\ ManualFinished
    /\ Len(UrlReads) = 3
    /\ ~UrlChangeObserved
    /\ Has(trace, "browser_closed")
    /\ Has(trace, "capture_flag_false")
    /\ ~Has(trace, "capture_flag_true")

\* C22: _send_session_to_backend never raises; it returns True iff a POST
\* was made and the response status was 200 or 201; without 'leadId' and
\* '_id' it returns False and sends nothing; on any error it returns False.
C22_SendSessionToBackend ==
    send_call.called =>
        /\ send_call.ret \in {"True", "False"}
        /\ (send_call.ret = "True")
             <=> (send_call.requested /\ send_call.env.post = "ok"
                    /\ send_call.env.status_code \in {200, 201})
        /\ (lead_data.leadId = "absent" /\ lead_data._id = "absent")
             => (~send_call.requested /\ send_call.ret = "False")
        /\ send_call.env.post \in {"network_error", "other_error"} => send_call.ret = "False"

\* C22 amended: _send_session_to_backend raises no Exception (only a
\* KeyboardInterrupt during the call passes through it); it returns True iff
\* a POST was made, the response status was 200 or 201 and the response body
\* was parsed as JSON; without a non-empty 'leadId' or '_id' it returns
\* False and sends nothing; on a network error or another Exception it
\* returns False.
C22_SendSessionToBackendJson ==
    send_call.called =>
        /\ send_call.ret \in {"True", "False", "KeyboardInterrupt"}
        /\ (send_call.ret = "KeyboardInterrupt")
             <=> (send_call.requested /\ send_call.env.post = "interrupt")
        /\ (send_call.ret = "True")
             <=> (send_call.requested /\ send_call.env.post = "ok"
                    /\ send_call.env.status_code \in {200, 201}
                    /\ send_call.env.json_ok)
        /\ (lead_data.leadId # "set" /\ lead_data._id # "set")
             => (~send_call.requested /\ send_call.ret = "False")
        /\ send_call.requested <=> (lead_data.leadId = "set" \/ lead_data._id = "set")
        /\ send_call.env.post \in {"network_error", "other_error"} => send_call.ret = "False"
        /\ Has(trace, "session_stored") => send_call.ret = "True"

\* C22 witness: the backend answered 200 with a body that is not JSON and
\* the method returned False.
C22_Witness ==
    /\ ManualFinished
    /\ send_call.called
    /\ send_call.requested
    /\ send_call.env.post = "ok"
    /\ send_call.env.status_code = 200
    /\ ~send_call.env.json_ok
    /\ send_call.ret = "False"
    /\ Has(trace, "post")

\* C22 witness: the session was stored after a 201.
C22_StoredWitness ==
    /\ ManualFinished
    /\ send_call.called
    /\ send_call.env.status_code = 201
    /\ send_call.ret = "True"
    /\ Has(trace, "session_stored")

\* C22 witness: the lead has an empty 'leadId' and no '_id'; nothing is sent.
C22_NoIdWitness ==
    /\ ManualFinished
    /\ send_call.called
    /\ lead_data.leadId = "empty"
    /\ ~send_call.requested
    /\ send_call.ret = "False"
    /\ ~Has(trace, "post")

QuantumFinished == prog = "quantum" /\ pc \in {"q_main_ret", "exited"} /\ result # "none"

\* The attempts on forms, in the order they were made.
FillEvents == {"fill_" \o Forms[i] : i \in DOMAIN Forms}
FormAttempts == SelectSeq(trace, LAMBDA e : e \in FillEvents)

\* C23: the forms are attempted in the order myform1, myform2, myform3,
\* each at most once; a later form is attempted only after every earlier
\* form was attempted and did not end in a submit that returned True;
\* myform3 only if the popup was detected; after a submit that returned
\* True no form is attempted and inject_lead, unless interrupted from the
\* keyboard, returns True.
C23_FormOrder ==
    prog = "quantum" =>
        /\ \A k \in DOMAIN FormAttempts : FormAttempts[k] = "fill_" \o Forms[k]
        /\ \A k \in DOMAIN FormAttempts :
             \A j \in 1..(k - 1) : ~Has(trace, "submitted_" \o Forms[j])
        /\ Has(trace, "fill_myform3") => popup_visible
        /\ \A i \in DOMAIN trace :
             trace[i] \in {"submitted_" \o Forms[k] : k \in DOMAIN Forms}
                => \A j \in DOMAIN trace : j > i => trace[j] \notin FillEvents
        /\ (QuantumFinished /\ result # "KeyboardInterrupt"
              /\ \E k \in DOMAIN Forms : Has(trace, "submitted_" \o Forms[k]))
             => result = "True"

\* C23 witness: myform1 and myform2 failed, the popup was visible, myform3
\* was submitted and inject_lead returned True.
C23_Witness ==
    /\ QuantumFinished
    /\ Len(FormAttempts) = 3
    /\ popup_visible
    /\ Has(trace, "submit_myform1")
    /\ ~Has(trace, "submit_myform2")
    /\ Has(trace, "submitted_myform3")
    /\ result = "True"

\* C23 witness: myform1 was submitted; no other form was attempted.
C23_FirstFormWitness ==
    /\ QuantumFinished
    /\ FormAttempts = <<"fill_myform1">>
    /\ Has(trace, "submitted_myform1")
    /\ result = "True"

ClickEvents == {"click_" \o Forms[i] : i \in DOMAIN Forms}

\* C24: in one run of inject_lead at most one submit button is clicked
\* (submit_button.click() returned): a _submit_quantumai_form that clicked
\* returns True unless a KeyboardInterrupt ends the run, and after a click
\* no other form is attempted.
C24_OneSubmitPerRun ==
    prog = "quantum" =>
        /\ Len(SelectSeq(trace, LAMBDA e : e \in ClickEvents)) <= 1
        /\ \A i \in DOMAIN trace :
             trace[i] \in ClickEvents
                => /\ \A j \in DOMAIN trace : j > i => trace[j] \notin FillEvents
                   /\ \/ (i < Len(trace) /\ trace[i + 1] \in
                              {"submitted_" \o Forms[k] : k \in DOMAIN Forms})
                      \/ result = "KeyboardInterrupt"

\* C24 witness: myform1 was filled but its submit failed without a click;
\* myform2 was clicked, with no success indicator showing, and the run
\* returned True with one click made.
C24_Witness ==
    /\ QuantumFinished
    /\ Has(trace, "submit_myform1")
    /\ ~Has(trace, "click_myform1")
    /\ Has(trace, "click_myform2")
    /\ Len(SelectSeq(trace, LAMBDA e : e \in ClickEvents)) = 1
    /\ result = "True"

HealthEvents == {"health_ok", "health_failed"}

\* C25: with a proxy configuration set, every page.goto of inject_lead comes
\* directly after a health check that passed; after a failed health check
\* there is no page.goto and no further health check, and inject_lead
\* returns False; without a proxy configuration no health check is made.
C25_HealthCheckBeforeGoto ==
    prog = "inject" =>
        /\ proxy_config # "none" =>
             \A i \in Positions(trace, "goto") : i > 1 /\ trace[i - 1] = "health_ok"
        /\ \A i \in Positions(trace, "health_failed") :
             /\ \A j \in DOMAIN trace :
                  j > i => trace[j] \notin (HealthEvents \cup {"goto"})
             /\ result = "False"
        /\ proxy_config = "none" => \A i \in DOMAIN trace : trace[i] \notin HealthEvents

\* C25 witness: a proxy is set, the first attempt passed its health check
\* and its page.goto failed, the health check of the second attempt failed:
\* inject_lead returned False after a single page.goto.
C25_Witness ==
    /\ InjectLeadFinished
    /\ proxy_config # "none"
    /\ Count(trace, "health_ok") = 1
    /\ Count(trace, "goto") = 1
    /\ Count(trace, "health_failed") = 1
    /\ result = "False"

\* C25 witness: no proxy is set and page.goto was called three times.
C25_NoProxyWitness ==
    /\ InjectLeadFinished
    /\ proxy_config = "none"
    /\ Count(trace, "goto") = MAX_RETRIES

====
